---------------------------- MODULE Spec2Model ----------------------------
(*************************************************************************)
(* Job lifecycle of @athenna/queue: the memory driver                    *)
(* (src/src/drivers/MemoryDriver.ts) and the database driver             *)
(* (src/unnamed/part_001), with the shared backoff calculator            *)
(* (src/src/drivers/VanillaDriver.ts, class Driver).                     *)
(*                                                                       *)
(* Every async method is cut at its awaits: one action runs the code     *)
(* from one resumption up to the next await, so that calls of different  *)
(* workers interleave exactly where the event loop lets them.            *)
(* Time is a counter `now` (Date.now()) advanced by Tick.                *)
(*************************************************************************)
EXTENDS Integers, Sequences, FiniteSets, TLC

\* ----------------------------------------------------------------- bounds
MaxJobs == 2          \* jobs ever added in one behaviour
MaxTime == 3          \* last clock value
MaxCalls == 2         \* process()/peek()/pop() calls in one behaviour
MaxAttempts == 2      \* largest configured attempt budget
NumWorkers == 2       \* concurrent callers of the driver
MaxTimers == 4        \* loop timers a behaviour of the scheduler creates
MaxCycles == 2        \* polling cycles a behaviour of the scheduler starts
MaxHandlers == 2      \* handler functions ever passed to handler()
MaxSets == 2          \* name()/connection()/concurrency() calls in a behaviour
MaxHandles == 2       \* Queue handles a behaviour of the factory creates
MaxClients == 4       \* clients a behaviour of the factory creates
MaxAdds == 1          \* jobs added through the handles of the factory
MaxDelay == 4         \* largest backoff.delay calculateBackoffDelay is given
MaxBelow == 1         \* how far below 0 the progress check follows attempts
SecMs == 2            \* clock units in a second

\* ------------------------------------------------- driver configuration
visibilityTimeout == 2    \* this.visibilityTimeout, in clock units
noAckDelayMs == 1         \* this.noAckDelayMs, in clock units
workerInterval == 2       \* this.workerInterval, in clock units
backoffDelay == 1         \* backoff.delay of the configured policies

Null == -1                \* JavaScript null / undefined
NoJob == 0                \* "no job" (peek() found nothing)

Workers == 1..NumWorkers
JobIds == 1..MaxJobs
Payloads == {"a", "b"}
QueueName == "default"        \* this.queueName
Deadletter == "deadletter"    \* this.deadletter
OtherQueue == "other"         \* a queue name given to queue(name)

\* Backoff policies a connection can be configured with (null = none).
\* A jitter factor is written in units of 1 / JitterUnit: 2 is the factor
\* 1, 1 the factor 0.5 of the memoryBackoff connection.
JitterUnit == 2
NoBackoff == [type |-> "none", delay |-> 0, jitter |-> JitterUnit]
FixedBackoff ==
  [type |-> "fixed", delay |-> backoffDelay, jitter |-> JitterUnit]
BackoffPolicies == { FixedBackoff }

\* The policies calculateBackoffDelay is checked on: no policy, and fixed
\* and exponential with delays 0..MaxDelay and jitter factors 0, 0.5 .. 2.
AllBackoffPolicies ==
  {NoBackoff} \cup [type : {"fixed", "exponential"}, delay : 0..MaxDelay,
                    jitter : 0..(2 * JitterUnit)]

\* What a handler can reject with: an Error object, or null/undefined.
ThrownValues == {"error", "null"}

\* The worker task builders, the names and connections they are given.
Builders == 1..2
Names == {"a", "b"}
NoName == "undefined"
Connections == {"memory", "database"}
DefaultConnection == "memory"     \* Config.get('queue.default')
workerInitialOffsetMs == 0        \* the configured workerInitialOffsetMs

\* Connection names: two configured with the memory driver, one configured
\* with a driver kind nobody registered, one without configuration.
GoodCons == {"memory", "memoryBackoff"}
ConNames == GoodCons \cup {"not-found", "not-found-con"}
NoEntry == -2                     \* connections.get(con) === undefined
NoClient == 0                     \* client null / undefined

VARIABLES
  driver,       \* "memory" | "database": the driver class under test
  attempts,     \* this.attempts: the configured attempt budget
  backoff,      \* this.backoff
  now,          \* Date.now()
  nextId,       \* next job id (Uuid.generate() / increments('id'))
  calls,        \* number of driver calls started so far
  \* --- memory driver: this.client.queues
  heap,         \* the job objects, by id (objects are shared by reference)
  queue,        \* client.queues[queueName]: ids of the objects it holds
  dlq,          \* client.queues[deadletter]: copies pushed by process()
  \* --- database driver: the jobs table
  table,        \* the set of rows of the jobs table (id is the key)
  \* --- both
  ackedIds,     \* static ackedIds
  w,            \* per worker: the frame of the call it is running
  \* --- history, for the properties
  leases,       \* per job id: leases granted by process()
  clean,        \* per job id: every handler run so far threw
  \* --- worker scheduler (WorkerImpl, WorkerTaskBuilder)
  tasks,        \* WorkerImpl.tasks: the builders registered, in order
  bld,          \* per builder: this.worker and this.timers
  tm,           \* the timers setTimeout(loop, ...) has created, in order
  cyc,          \* the polling cycles started, in order
  nextHandler,  \* next handler function (each handler() call passes a new one)
  sets,         \* number of name()/connection()/concurrency() calls so far
  \* --- connection factory (ConnectionFactory, QueueImpl, Driver)
  connections,  \* ConnectionFactory.connections: per name, the client saved
  hd,           \* the drivers fabricated for Queue handles, in order
  stores,       \* the clients created, in order: client.queues
  err,          \* what the last factory or handle call threw
  \* --- calculateBackoffDelay as a function
  attemptsLeft, \* the argument of the last call (Null: no call yet)
  random,       \* what the last call returned (Null: no call yet)
  \* --- a second queue of the connection: queue('other')
  other,        \* memory: client.queues['other'], the jobs it holds
  \* --- the SQS driver (AwsSqsDriver) and the SQS queues it talks to
  sqs,          \* the messages the SQS queue holds, in arrival order
  sqsDlq,       \* the bodies sent to the dead-letter SQS queue, in order
  sqsCall,      \* the frame of the process() call on the SQS driver
  sqsDrv        \* the driver's options and fields, the queue's attributes

\* The state of the worker scheduler.
schedVars == << tasks, bld, tm, cyc, nextHandler, sets >>

\* The state of the connection factory and of the Queue handles.
facVars == << connections, hd, stores, err >>

\* The last call of calculateBackoffDelay.
calcVars == << attemptsLeft, random >>

\* The state outside the queue and dead-letter queue the drivers work on.
extVars == << other, sqs, sqsDlq, sqsCall, sqsDrv >>

vars == << driver, attempts, backoff, now, nextId, calls, heap, queue, dlq,
           table, ackedIds, w, leases, clean, schedVars, facVars, calcVars,
           extVars >>

\* What no step of a driver changes: its configuration and the scheduler.
cfgVars == << driver, attempts, backoff, schedVars, facVars, calcVars,
             extVars >>

\* The state of the drivers.
driverVars == << driver, attempts, backoff, now, nextId, calls, heap, queue,
                dlq, table, ackedIds, w, leases, clean, facVars, calcVars,
                extVars >>

\* What no step of the connection factory changes.
otherVars == << driver, attempts, backoff, now, nextId, calls, heap, queue,
               dlq, table, ackedIds, w, leases, clean, schedVars, calcVars,
               extVars >>

\* A builder as `new WorkerTaskBuilder()` leaves it; handler 0 and
\* concurrency 0 stand for undefined.
NewBuilder ==
  [name |-> NoName, isRegistered |-> FALSE, handler |-> 0,
   connection |-> DefaultConnection, concurrency |-> 0, timers |-> << >>]

\* The frame of a call: pc is the await it is suspended at, op the public
\* method called, job the local `job` (memory: the id of the object it
\* references, database: the row copy), jitter requeueJitterMs, pnow the
\* `now` of peek(), retry the local shouldRetry; grantAt records when
\* process() took its lease (history).
Idle ==
  [pc |-> "idle", op |-> "none", job |-> 0, jitter |-> 0, pnow |-> 0,
   retry |-> FALSE, grantAt |-> 0]

\* A job row/object without formerQueue has formerQueue = "null".
NewJob(id, d) ==
  [id |-> id, attempts |-> attempts, availableAt |-> now,
   reservedUntil |-> Null, createdAt |-> now, data |-> d,
   queue |-> QueueName, formerQueue |-> "null"]

\* An object nothing references any more.
Garbage ==
  [id |-> NoJob, attempts |-> 0, availableAt |-> 0, reservedUntil |-> Null,
   createdAt |-> 0, data |-> "a", queue |-> QueueName,
   formerQueue |-> "null"]

\* The frame of process() on the SQS driver: id, attempts, data and count
\* are the job pop() returned (count its metadata's ApproximateReceiveCount),
\* acked is AwsSqsDriver.ackedIds.has(job.id), jitter requeueJitterMs, err
\* what the catch block caught.
SqsIdle ==
  [pc |-> "idle", id |-> NoJob, attempts |-> 0, data |-> "a", count |-> 0,
   acked |-> FALSE, jitter |-> 0, err |-> "none"]

\* What `new AwsSqsDriver(con)` leaves with the options type, queue name
\* and contentBasedDeduplication (opt), on a queue whose attributes FifoQueue
\* and ContentBasedDeduplication the server holds as fifo and dedup:
\* this.fifoContentBasedDedup is set when the option is a boolean.
\* nameFifo is this.queueName.endsWith('.fifo'); adds counts the add()
\* calls, sends the SendMessageCommands issued, thrown is what the last
\* add() threw.
SqsDriver(type, nameFifo, opt, fifo, dedup) ==
  [type |-> type, nameFifo |-> nameFifo, contentBasedDeduplication |-> opt,
   fifoContentBasedDedup |-> opt, FifoQueue |-> fifo,
   ContentBasedDeduplication |-> dedup, adds |-> 0, sends |-> 0,
   thrown |-> "none"]

\* The default: a standard queue, no option given.
NewSqsDriver == SqsDriver("standard", FALSE, "undefined", FALSE, FALSE)

InitState ==
  /\ driver \in {"memory", "database"}
  /\ attempts \in 1..MaxAttempts
  /\ now = 1
  /\ nextId = 1
  /\ calls = 0
  /\ heap = << >>
  /\ queue = << >>
  /\ dlq = << >>
  /\ table = {}
  /\ ackedIds = {}
  /\ w = [p \in Workers |-> Idle]
  /\ leases = [i \in JobIds |-> 0]
  /\ clean = [i \in JobIds |-> TRUE]
  /\ tasks = << >>
  /\ bld = [b \in Builders |-> NewBuilder]
  /\ tm = << >>
  /\ cyc = << >>
  /\ nextHandler = 1
  /\ sets = 0
  /\ connections = [c \in ConNames |-> NoEntry]
  /\ hd = << >>
  /\ stores = << >>
  /\ err = "none"
  /\ attemptsLeft = Null
  /\ random = Null
  /\ other = << >>
  /\ sqs = << >>
  /\ sqsDlq = << >>
  /\ sqsCall = SqsIdle

Init == backoff \in BackoffPolicies /\ sqsDrv = NewSqsDriver /\ InitState

\* ------------------------------------------------------ pure helpers

RECURSIVE Pow2(_)
Pow2(n) == IF n <= 0 THEN 1 ELSE 2 * Pow2(n - 1)

\* Driver.calculateBackoffDelay: the set of values Math.random() allows.
\* random = floor(Math.random() * (max - baseDelay + 1)) + baseDelay
\* With max = baseDelay * jitter and span = max - baseDelay + 1, both in
\* units of 1 / JitterUnit: Math.random() * span lies in [0, span) for
\* span > 0 and in (span, 0] for span <= 0, and Math.floor rounds down.
baseDelay(left) ==
  IF backoff.type = "fixed"
    THEN backoff.delay
    ELSE Pow2(attempts - left) * backoff.delay

calculateBackoffDelay(left) ==
  IF backoff.type = "none" THEN {0}
  ELSE LET max == baseDelay(left) * backoff.jitter
           span == max - JitterUnit * baseDelay(left) + JitterUnit
       IN IF span > 0
            THEN baseDelay(left)..
                   (baseDelay(left) + (span + JitterUnit - 1) \div JitterUnit - 1)
            ELSE (baseDelay(left) + span \div JitterUnit)..baseDelay(left)

\* Math.floor(Math.random() * this.workerInterval)
RequeueJitters == 0..(workerInterval - 1)

\* JavaScript truthiness of a timestamp field.
Truthy(x) == x # Null /\ x # 0

\* The eligibility rule of the data model.
Eligible(j, t) ==
  j.availableAt <= t /\ (j.reservedUntil = Null \/ j.reservedUntil <= t)

SeqIndexOf(s, x) ==
  IF \E i \in 1..Len(s) : s[i] = x
    THEN CHOOSE i \in 1..Len(s) : s[i] = x /\ \A k \in 1..(i - 1) : s[k] # x
    ELSE 0

RemoveAt(s, i) == SubSeq(s, 1, i - 1) \o SubSeq(s, i + 1, Len(s))

Has(q, id) == \E i \in 1..Len(q) : q[i] = id

InQueue(id) == Has(queue, id)

Set(f, p, v) == [f EXCEPT ![p] = v]

\* A call runs in the first free frame.
FreeFrame(p) ==
  w[p].pc = "idle" /\ \A q \in Workers : q < p => w[q].pc # "idle"

\* The heap h once the objects that neither the queue q nor a frame of f
\* references are collected.
Collect(h, q, f) ==
  [i \in DOMAIN h |->
     IF Has(q, i) \/ \E p \in Workers : f[p].job = i THEN h[i] ELSE Garbage]

\* ============================================================ memory driver
\* src/src/drivers/MemoryDriver.ts

\* releaseExpiredLeases() clearing every lease, expired or not.
MemReleasedAll(h, t) ==
  [i \in DOMAIN h |->
     IF InQueue(i) /\ Truthy(h[i].reservedUntil)
       THEN [h[i] EXCEPT !.reservedUntil = Null]
       ELSE h[i]]

\* releaseExpiredLeases(): the heap after the forEach.
MemReleased(h, t) ==
  [i \in DOMAIN h |->
     IF InQueue(i) /\ Truthy(h[i].reservedUntil) /\ h[i].reservedUntil <= t
       THEN [h[i] EXCEPT !.reservedUntil = Null]
       ELSE h[i]]

\* queues[queueName].find(job => job.availableAt <= now && !job.reservedUntil)
MemFind(h, t) ==
  LET ok(i) == /\ h[queue[i]].availableAt <= t
               /\ ~Truthy(h[queue[i]].reservedUntil)
  IN IF \E i \in 1..Len(queue) : ok(i)
       THEN queue[CHOOSE i \in 1..Len(queue) :
                    ok(i) /\ \A k \in 1..(i - 1) : ~ok(k)]
       ELSE NoJob

\* ack(id) without the splice.
MemAckQueueKeep(id) == queue

\* ack(id) without the `index === -1` return: splice(-1, 1) drops the last.
MemAckQueueNoCheck(id) ==
  IF SeqIndexOf(queue, id) = 0 THEN SubSeq(queue, 1, Len(queue) - 1)
  ELSE RemoveAt(queue, SeqIndexOf(queue, id))

\* ack(id): the queue after findIndex/splice, and ackedIds after the add.
MemAckQueue(id) ==
  IF SeqIndexOf(queue, id) = 0 THEN queue
  ELSE RemoveAt(queue, SeqIndexOf(queue, id))

MemAckIds(id) ==
  IF SeqIndexOf(queue, id) = 0 THEN ackedIds ELSE ackedIds \cup {id}

\* add(data)
MemAdd(d) ==
  /\ driver = "memory"
  /\ nextId <= MaxJobs
  /\ heap' = Append(heap, NewJob(nextId, d))
  /\ queue' = Append(queue, nextId)
  /\ nextId' = nextId + 1
  /\ UNCHANGED << cfgVars, now, calls, dlq, table, ackedIds, w, leases,
                  clean >>

\* pop(): what it returns, null (no job) on an empty queue.
MemPopResult == IF Len(queue) = 0 THEN Garbage ELSE heap[Head(queue)]

\* pop() reading the first job without the shift().
MemPopKeep ==
  /\ driver = "memory"
  /\ calls < MaxCalls
  /\ calls' = calls + 1
  /\ UNCHANGED << cfgVars, now, nextId, heap, queue, dlq, table, ackedIds, w,
                  leases, clean >>

\* pop(): shift() of the first job, whatever its lease or delay.
MemPop ==
  /\ driver = "memory"
  /\ calls < MaxCalls
  /\ calls' = calls + 1
  /\ IF Len(queue) = 0
       THEN UNCHANGED << queue, heap >>
       ELSE /\ queue' = Tail(queue)
            /\ heap' = Collect(heap, queue', w)
  /\ UNCHANGED << cfgVars, now, nextId, dlq, table, ackedIds, w, leases,
                  clean >>

\* peek(), first half: defineQueue(); await this.releaseExpiredLeases()
\* (called directly, o = "peek", or from process(), o = "process").
MemPeekCall(p, o) ==
  /\ driver = "memory"
  /\ FreeFrame(p)
  /\ calls < MaxCalls
  /\ calls' = calls + 1
  /\ heap' = MemReleased(heap, now)
  /\ w' = Set(w, p, [Idle EXCEPT !.pc = "peekAwait", !.op = o])
  /\ UNCHANGED << cfgVars, now, nextId, queue, dlq, table, ackedIds, leases,
                  clean >>

\* peek() taking the job it found out of the queue, as pop() does.
MemPeekResumeShift(p) ==
  /\ driver = "memory"
  /\ w[p].pc = "peekAwait"
  /\ IF w[p].op = "peek"
       THEN w' = Set(w, p, Idle)
       ELSE w' = Set(w, p, [w[p] EXCEPT !.pc = "peeked",
                                        !.job = MemFind(heap, now)])
  /\ queue' = MemAckQueue(MemFind(heap, now))
  /\ UNCHANGED << cfgVars, now, nextId, calls, heap, dlq, table,
                  ackedIds, leases, clean >>

\* peek(), second half: the find(); a direct peek() returns here.
MemPeekResume(p) ==
  /\ driver = "memory"
  /\ w[p].pc = "peekAwait"
  /\ IF w[p].op = "peek"
       THEN w' = Set(w, p, Idle)
       ELSE w' = Set(w, p, [w[p] EXCEPT !.pc = "peeked",
                                        !.job = MemFind(heap, now)])
  /\ UNCHANGED << cfgVars, now, nextId, calls, heap, queue, dlq, table,
                  ackedIds, leases, clean >>

\* process(), after `await this.peek()`: the lease and the handler call.
MemProcessLease(p) ==
  /\ driver = "memory"
  /\ w[p].pc = "peeked"
  /\ IF w[p].job = NoJob
       THEN /\ w' = Set(w, p, Idle)
            /\ UNCHANGED << heap, ackedIds, leases >>
       ELSE LET id == w[p].job IN
            /\ \E r \in RequeueJitters :
                 w' = Set(w, p, [w[p] EXCEPT !.pc = "handler", !.jitter = r,
                                             !.grantAt = now])
            /\ ackedIds' = ackedIds \ {id}
            /\ heap' = [heap EXCEPT ![id].attempts = @ - 1,
                                    ![id].reservedUntil =
                                        now + visibilityTimeout]
            /\ leases' = Set(leases, id, leases[id] + 1)
  /\ UNCHANGED << cfgVars, now, nextId, calls, queue, dlq, table, clean >>

\* ack(id), called by the handler of worker p with the id it was given.
MemAck(p) ==
  /\ driver = "memory"
  /\ w[p].pc = "handler"
  /\ InQueue(w[p].job)
  /\ queue' = MemAckQueue(w[p].job)
  /\ ackedIds' = MemAckIds(w[p].job)
  /\ UNCHANGED << cfgVars, now, nextId, calls, heap, dlq, table, w, leases,
                  clean >>

\* ack(id), called from outside a handler (Queue.ack(id)) with any id.
MemAckCall(id) ==
  /\ driver = "memory"
  /\ queue' = MemAckQueue(id)
  /\ ackedIds' = MemAckIds(id)
  /\ heap' = Collect(heap, queue', w)
  /\ UNCHANGED << cfgVars, now, nextId, calls, dlq, table, w, leases, clean >>

\* process(), the handler returned: the no-ack requeue.
MemHandlerReturn(p) ==
  /\ driver = "memory"
  /\ w[p].pc = "handler"
  /\ w' = Set(w, p, Idle)
  /\ LET id == w[p].job IN
       /\ IF id \notin ackedIds
            THEN heap' = Collect(
                           [heap EXCEPT ![id].reservedUntil = Null,
                                        ![id].availableAt =
                                          now + noAckDelayMs + w[p].jitter],
                           queue, w')
            ELSE heap' = Collect(heap, queue, w')
       /\ clean' = Set(clean, id, FALSE)
  /\ UNCHANGED << cfgVars, now, nextId, calls, queue, dlq, table, ackedIds,
                  leases >>

\* The catch block after the log call: retry, or ack and await.
\* h is the heap as the catch block has left it so far.
MemCatchTail(p, h, retry) ==
  LET id == w[p].job IN
  IF retry
    THEN /\ w' = Set(w, p, Idle)
         /\ \E d \in calculateBackoffDelay(h[id].attempts) :
              heap' = Collect(
                        [h EXCEPT ![id].availableAt = now + d + w[p].jitter],
                        queue, w')
         /\ UNCHANGED << queue, ackedIds >>
    ELSE /\ heap' = h
         /\ queue' = MemAckQueue(id)
         /\ ackedIds' = MemAckIds(id)
         /\ w' = Set(w, p, [w[p] EXCEPT !.pc = "ackAwait", !.retry = retry])

\* process(), the handler threw v: the catch block up to its first await.
\* Reading err.message (or err.toAthennaException) of null/undefined
\* throws a TypeError out of the catch block: process() rejects.
\* prettify is what Config.is('worker.logger.prettifyException') answers.
MemHandlerThrow(p, v, prettify) ==
  /\ driver = "memory"
  /\ w[p].pc = "handler"
  /\ LET id == w[p].job
         retry == heap[id].attempts > 0
         h == [heap EXCEPT ![id].reservedUntil = Null]
     IN
       IF v = "null"
         THEN /\ w' = Set(w, p, [Idle EXCEPT !.pc = "rejected"])
              /\ heap' = Collect(h, queue, w')
              /\ UNCHANGED << queue, ackedIds >>
         ELSE IF prettify
           THEN /\ heap' = h
                /\ w' = Set(w, p, [w[p] EXCEPT !.pc = "catchAwait",
                                               !.retry = retry])
                /\ UNCHANGED << queue, ackedIds >>
           ELSE MemCatchTail(p, h, retry)
  /\ UNCHANGED << cfgVars, now, nextId, calls, dlq, table, leases, clean >>

\* process(), after `await err.toAthennaException().prettify()`.
MemCatchResume(p) ==
  /\ driver = "memory"
  /\ w[p].pc = "catchAwait"
  /\ MemCatchTail(p, heap, w[p].retry)
  /\ UNCHANGED << cfgVars, now, nextId, calls, dlq, table, leases, clean >>

\* process(), after `await this.ack(job.id)`: the dead-letter push.
MemDeadletterPush(p) ==
  /\ driver = "memory"
  /\ w[p].pc = "ackAwait"
  /\ dlq' = Append(dlq, [heap[w[p].job] EXCEPT !.attempts = 0])
  /\ w' = Set(w, p, Idle)
  /\ heap' = Collect(heap, queue, w')
  /\ UNCHANGED << cfgVars, now, nextId, calls, queue, table, ackedIds,
                  leases, clean >>

NextMem ==
  \/ \E d \in Payloads : MemAdd(d)
  \/ MemPop
  \/ \E p \in Workers, o \in {"process", "peek"} : MemPeekCall(p, o)
  \/ \E p \in Workers : MemPeekResume(p)
  \/ \E p \in Workers : MemProcessLease(p)
  \/ \E p \in Workers : MemAck(p)
  \/ \E id \in JobIds : MemAckCall(id)
  \/ \E p \in Workers : MemHandlerReturn(p)
  \/ \E p \in Workers, v \in ThrownValues, c \in BOOLEAN :
       MemHandlerThrow(p, v, c)
  \/ \E p \in Workers : MemCatchResume(p)
  \/ \E p \in Workers : MemDeadletterPush(p)

\* ========================================================= database driver
\* src/unnamed/part_001 (class DatabaseDriver)

NoRow == Garbage

Row(id) == CHOOSE r \in table : r.id = id

HasRow(id) == \E r \in table : r.id = id

\* .where('queue', queueName).where('availableAt', '<=', now)
\* .where(qb => qb.whereNull('reservedUntil').orWhere('reservedUntil', '<=', now))
DbEligibleRows(t) ==
  { r \in table : r.queue = QueueName /\ Eligible(r, t) }

\* .orderBy('availableAt', 'asc').orderBy('createdAt', 'asc').find():
\* the rows find() may return (rows equal on both keys come in any order).
DbFirstRows(t) ==
  { r \in DbEligibleRows(t) :
      \A o \in DbEligibleRows(t) :
        \/ r.availableAt < o.availableAt
        \/ r.availableAt = o.availableAt /\ r.createdAt <= o.createdAt }

\* releaseExpiredLeases(): the table after the update.
DbReleased(t) ==
  { IF r.queue = QueueName /\ r.reservedUntil # Null /\ r.reservedUntil <= t
      THEN [r EXCEPT !.reservedUntil = Null]
      ELSE r : r \in table }

\* .where('id', id).delete()
DbDeleteId(id) == { r \in table : r.id # id }

\* .where('queue', queueName).where('id', id).delete()
DbDeleteQueueId(id) == { r \in table : ~(r.queue = QueueName /\ r.id = id) }

\* add(data)
DbAdd(d) ==
  /\ driver = "database"
  /\ nextId <= MaxJobs
  /\ table' = table \cup {NewJob(nextId, d)}
  /\ nextId' = nextId + 1
  /\ UNCHANGED << cfgVars, now, calls, heap, queue, dlq, ackedIds, w, leases,
                  clean >>

\* pop(), up to the await of the find().
DbPopCall(p) ==
  /\ driver = "database"
  /\ FreeFrame(p)
  /\ calls < MaxCalls
  /\ calls' = calls + 1
  /\ IF DbFirstRows(now) = {}
       THEN w' = Set(w, p, [Idle EXCEPT !.pc = "popFound", !.op = "pop",
                                        !.job = NoRow])
       ELSE \E r \in DbFirstRows(now) :
              w' = Set(w, p, [Idle EXCEPT !.pc = "popFound", !.op = "pop",
                                          !.job = r])
  /\ UNCHANGED << cfgVars, now, nextId, heap, queue, dlq, table, ackedIds,
                  leases, clean >>

\* pop(), after the find(): the delete by id, then the return.
DbPopDelete(p) ==
  /\ driver = "database"
  /\ w[p].pc = "popFound"
  /\ table' = IF w[p].job.id = NoJob THEN table ELSE DbDeleteId(w[p].job.id)
  /\ w' = Set(w, p, Idle)
  /\ UNCHANGED << cfgVars, now, nextId, calls, heap, queue, dlq, ackedIds,
                  leases, clean >>

\* peek(), up to `await this.releaseExpiredLeases()`
\* (called directly, o = "peek", or from process(), o = "process").
DbPeekCall(p, o) ==
  /\ driver = "database"
  /\ FreeFrame(p)
  /\ calls < MaxCalls
  /\ calls' = calls + 1
  /\ table' = DbReleased(now)
  /\ w' = Set(w, p, [Idle EXCEPT !.pc = "released", !.op = o, !.pnow = now])
  /\ UNCHANGED << cfgVars, now, nextId, heap, queue, dlq, ackedIds, leases,
                  clean >>

\* peek(), the find() with the `now` taken before the release; a direct
\* peek() returns its result.
DbPeekSelect(p) ==
  /\ driver = "database"
  /\ w[p].pc = "released"
  /\ \E r \in IF DbFirstRows(w[p].pnow) = {} THEN {NoRow}
                                             ELSE DbFirstRows(w[p].pnow) :
       IF w[p].op = "peek"
         THEN w' = Set(w, p, Idle)
         ELSE w' = Set(w, p, [w[p] EXCEPT !.pc = "selected", !.job = r])
  /\ UNCHANGED << cfgVars, now, nextId, calls, heap, queue, dlq, table,
                  ackedIds, leases, clean >>

\* process(), after `await this.peek()`: the lease update by id; the
\* handler is called when the update has completed.
DbProcessLease(p) ==
  /\ driver = "database"
  /\ w[p].pc = "selected"
  /\ IF w[p].job.id = NoJob
       THEN /\ w' = Set(w, p, Idle)
            /\ UNCHANGED << table, ackedIds, leases >>
       ELSE LET id == w[p].job.id
                j == [w[p].job EXCEPT !.attempts = @ - 1,
                                      !.reservedUntil =
                                          now + visibilityTimeout]
            IN
            /\ \E r \in RequeueJitters :
                 w' = Set(w, p, [w[p] EXCEPT !.pc = "handler", !.jitter = r,
                                             !.job = j, !.grantAt = now])
            /\ ackedIds' = ackedIds \ {id}
            /\ table' = { IF r.id = id
                            THEN [r EXCEPT !.attempts = j.attempts,
                                           !.reservedUntil = j.reservedUntil]
                            ELSE r : r \in table }
            /\ leases' = Set(leases, id, leases[id] + 1)
  /\ UNCHANGED << cfgVars, now, nextId, calls, heap, queue, dlq, clean >>

\* ack(id), called by the handler of worker p with the id it was given.
DbAck(p) ==
  /\ driver = "database"
  /\ w[p].pc = "handler"
  /\ w[p].job.id \notin ackedIds \/ table # DbDeleteQueueId(w[p].job.id)
  /\ ackedIds' = ackedIds \cup {w[p].job.id}
  /\ table' = DbDeleteQueueId(w[p].job.id)
  /\ UNCHANGED << cfgVars, now, nextId, calls, heap, queue, dlq, w, leases,
                  clean >>

\* ack(id), called from outside a handler (Queue.ack(id)) with any id.
DbAckCall(id) ==
  /\ driver = "database"
  /\ ackedIds' = ackedIds \cup {id}
  /\ table' = DbDeleteQueueId(id)
  /\ UNCHANGED << cfgVars, now, nextId, calls, heap, queue, dlq, w, leases,
                  clean >>

\* process(), the handler returned: the no-ack requeue update.
DbHandlerReturn(p) ==
  /\ driver = "database"
  /\ w[p].pc = "handler"
  /\ w' = Set(w, p, Idle)
  /\ LET id == w[p].job.id IN
       /\ IF id \notin ackedIds
            THEN table' =
                   { IF r.queue = QueueName /\ r.id = id
                       THEN [r EXCEPT !.availableAt =
                                         now + noAckDelayMs + w[p].jitter,
                                      !.reservedUntil = Null]
                       ELSE r : r \in table }
            ELSE UNCHANGED table
       /\ clean' = Set(clean, id, FALSE)
  /\ UNCHANGED << cfgVars, now, nextId, calls, heap, queue, dlq, ackedIds,
                  leases >>

\* The catch block after the log call: ack and await, or the retry update.
DbCatchTail(p, retry) ==
  LET id == w[p].job.id IN
  IF ~retry
    THEN /\ ackedIds' = ackedIds \cup {id}
         /\ table' = DbDeleteQueueId(id)
         /\ w' = Set(w, p, [w[p] EXCEPT !.pc = "ackAwait", !.retry = retry])
    ELSE /\ \E d \in calculateBackoffDelay(w[p].job.attempts) :
              table' = { IF r.id = id
                           THEN [r EXCEPT !.reservedUntil = Null,
                                          !.availableAt =
                                             now + d + w[p].jitter]
                           ELSE r : r \in table }
         /\ w' = Set(w, p, Idle)
         /\ UNCHANGED ackedIds

\* process(), the handler threw v: the catch block up to its first await.
DbHandlerThrow(p, v, prettify) ==
  /\ driver = "database"
  /\ w[p].pc = "handler"
  /\ LET retry == w[p].job.attempts > 0 IN
       IF v = "null"
         THEN /\ w' = Set(w, p, [Idle EXCEPT !.pc = "rejected"])
              /\ UNCHANGED << table, ackedIds >>
         ELSE IF prettify
           THEN /\ w' = Set(w, p, [w[p] EXCEPT !.pc = "catchAwait",
                                               !.retry = retry])
                /\ UNCHANGED << table, ackedIds >>
           ELSE DbCatchTail(p, retry)
  /\ UNCHANGED << cfgVars, now, nextId, calls, heap, queue, dlq, leases,
                  clean >>

\* process(), after `await err.toAthennaException().prettify()`.
DbCatchResume(p) ==
  /\ driver = "database"
  /\ w[p].pc = "catchAwait"
  /\ DbCatchTail(p, w[p].retry)
  /\ UNCHANGED << cfgVars, now, nextId, calls, heap, queue, dlq, leases,
                  clean >>

\* process(), after `await this.ack(job.id)`: the dead-letter create.
\* The row keeps the job's id; the create fails (and process() rejects)
\* when the table still holds a row with that id.
DbDeadletterCreate(p) ==
  /\ driver = "database"
  /\ w[p].pc = "ackAwait"
  /\ IF HasRow(w[p].job.id)
       THEN /\ w' = Set(w, p, [Idle EXCEPT !.pc = "rejected"])
            /\ UNCHANGED table
       ELSE /\ table' = table \cup
                  {[w[p].job EXCEPT !.queue = Deadletter,
                                    !.reservedUntil = Null,
                                    !.attempts = 0]}
            /\ w' = Set(w, p, Idle)
  /\ UNCHANGED << cfgVars, now, nextId, calls, heap, queue, dlq, ackedIds,
                  leases, clean >>

NextDb ==
  \/ \E d \in Payloads : DbAdd(d)
  \/ \E p \in Workers : DbPopCall(p)
  \/ \E p \in Workers : DbPopDelete(p)
  \/ \E p \in Workers, o \in {"process", "peek"} : DbPeekCall(p, o)
  \/ \E p \in Workers : DbPeekSelect(p)
  \/ \E p \in Workers : DbProcessLease(p)
  \/ \E p \in Workers : DbAck(p)
  \/ \E id \in JobIds : DbAckCall(id)
  \/ \E p \in Workers : DbHandlerReturn(p)
  \/ \E p \in Workers, v \in ThrownValues, c \in BOOLEAN :
       DbHandlerThrow(p, v, c)
  \/ \E p \in Workers : DbCatchResume(p)
  \/ \E p \in Workers : DbDeadletterCreate(p)

\* ================================================================== both

\* The caller of a process() that rejected has seen the rejection.
Rejected(p) ==
  /\ w[p].pc = "rejected"
  /\ w' = Set(w, p, Idle)
  /\ UNCHANGED << cfgVars, now, nextId, calls, heap, queue, dlq, table,
                  ackedIds, leases, clean >>

\* Date.now() advances.
Tick ==
  /\ now < MaxTime
  /\ now' = now + 1
  /\ UNCHANGED << cfgVars, nextId, calls, heap, queue, dlq, table, ackedIds,
                  w, leases, clean >>

Next ==
  \/ NextMem
  \/ NextDb
  \/ \E p \in Workers : Rejected(p)
  \/ Tick

Spec == Init /\ [][Next]_vars

\* The memory driver alone, and the database driver alone.
InitMem == Init /\ driver = "memory"

NextMemory ==
  \/ NextMem
  \/ \E p \in Workers : Rejected(p)
  \/ Tick

SpecMem == InitMem /\ [][NextMemory]_vars

InitDb == Init /\ driver = "database"

NextDatabase ==
  \/ NextDb
  \/ \E p \in Workers : Rejected(p)
  \/ Tick

SpecDb == InitDb /\ [][NextDatabase]_vars

\* ------------------------------------------------------------ truncate

MemTruncatedKeep(q) == q

\* MemoryDriver.truncate(): client.queues[key] = [] for every key.
MemTruncated(q) == << >>

\* MemoryDriver.length() / isEmpty() with queue(name) pointing at q.
MemLength(q) == Len(q)

MemIsEmpty(q) == Len(q) = 0

MemTruncate ==
  /\ driver = "memory"
  /\ queue' = MemTruncated(queue)
  /\ dlq' = MemTruncated(dlq)
  /\ other' = MemTruncated(other)
  /\ heap' = Collect(heap, queue', w)
  /\ UNCHANGED << driver, attempts, backoff, schedVars, facVars, calcVars,
                  now, nextId, calls, table, ackedIds, w, leases, clean,
                  sqs, sqsDlq, sqsCall, sqsDrv >>

\* DatabaseDriver.truncate(): this.client.truncate(this.table).
DbTruncated(t) == {}

\* DatabaseDriver.length() / isEmpty() on the rows t with queue(name).
DbLength(t, name) == Cardinality({r \in t : r.queue = name})

DbIsEmpty(t, name) == DbLength(t, name) = 0

DbTruncate ==
  /\ driver = "database"
  /\ table' = DbTruncated(table)
  /\ UNCHANGED << cfgVars, now, nextId, calls, heap, queue, dlq, ackedIds, w,
                  leases, clean >>

NextTruncate ==
  \/ NextMem
  \/ NextDb
  \/ \E p \in Workers : Rejected(p)
  \/ Tick
  \/ MemTruncate
  \/ DbTruncate

\* Both drivers with truncate() among their calls.
SpecTruncate == Init /\ [][NextTruncate]_vars

\* ------------------------------------------------------ a second queue
\* queue('other').add(data) on the memory driver: defineQueue() creates
\* client.queues['other'], add() pushes the job.
MemAddOther(d) ==
  /\ driver = "memory"
  /\ nextId <= MaxJobs
  /\ other' = Append(other, [NewJob(nextId, d) EXCEPT !.queue = OtherQueue])
  /\ nextId' = nextId + 1
  /\ UNCHANGED << driver, attempts, backoff, schedVars, facVars, calcVars,
                  now, calls, heap, queue, dlq, table, ackedIds, w, leases,
                  clean, sqs, sqsDlq, sqsCall, sqsDrv >>

\* queue('other').add(data) on the database driver.
DbAddOther(d) ==
  /\ driver = "database"
  /\ nextId <= MaxJobs
  /\ table' = table \cup {[NewJob(nextId, d) EXCEPT !.queue = OtherQueue]}
  /\ nextId' = nextId + 1
  /\ UNCHANGED << cfgVars, now, calls, heap, queue, dlq, ackedIds, w, leases,
                  clean >>

\* The jobs of queue 'other' in the memory queue o or in the rows t.
OtherJobs(o, t) ==
  IF driver = "memory"
    THEN { o[i] : i \in 1..Len(o) }
    ELSE { r \in t : r.queue = OtherQueue }

\* length() with queue('other').
OtherLength(o, t) ==
  IF driver = "memory" THEN MemLength(o) ELSE DbLength(t, OtherQueue)

\* add() and truncate() with the driver on 'default', add() on 'other'.
NextQueues ==
  \/ \E d \in Payloads : MemAdd(d)
  \/ \E d \in Payloads : MemAddOther(d)
  \/ \E d \in Payloads : DbAdd(d)
  \/ \E d \in Payloads : DbAddOther(d)
  \/ MemTruncate
  \/ DbTruncate
  \/ Tick

SpecQueues == Init /\ [][NextQueues]_vars

\* The memory driver with its calls made one after the other, each awaited
\* before the next: a call starts only when no call is in flight.
NoCallInFlight == \A p \in Workers : w[p].pc = "idle"

NextMemorySeq ==
  \/ \E d \in Payloads : MemAdd(d)
  \/ NoCallInFlight /\ MemPop
  \/ NoCallInFlight /\ \E p \in Workers, o \in {"process", "peek"} :
                         MemPeekCall(p, o)
  \/ \E p \in Workers : MemPeekResume(p)
  \/ \E p \in Workers : MemProcessLease(p)
  \/ \E p \in Workers : MemAck(p)
  \/ NoCallInFlight /\ \E id \in JobIds : MemAckCall(id)
  \/ \E p \in Workers : MemHandlerReturn(p)
  \/ \E p \in Workers, v \in ThrownValues, c \in BOOLEAN :
       MemHandlerThrow(p, v, c)
  \/ \E p \in Workers : MemCatchResume(p)
  \/ \E p \in Workers : MemDeadletterPush(p)
  \/ \E p \in Workers : Rejected(p)
  \/ Tick

SpecMemSeq == InitMem /\ [][NextMemorySeq]_vars

\* ========================================================= worker scheduler
\* src/unnamed/part_004 (class WorkerTaskBuilder), src/src/worker/WorkerImpl.ts
\* A polling cycle is one call of loop() that found the task registered:
\* Promise.race of this.run() against a timeout timer, then the finally.

Min(a, b) == IF a <= b THEN a ELSE b

\* The default of workerJitterMaxMs in computeJitter(baseMs).
maxDefault(baseMs) == Min(250, baseMs \div 2)

computeJitterOver(baseMs) == {baseMs}

\* computeJitter(baseMs): the values Math.floor(Math.random() * (max + 1))
\* can take, max being the default Math.min(250, Math.floor(baseMs / 2)).
computeJitter(baseMs) ==
  LET max == maxDefault(baseMs)
  IN IF max <= 0 THEN {0} ELSE 0..max

\* computeInitialOffset(baseMs) with workerInitialOffsetMs configured.
computeInitialOffset(baseMs) ==
  IF workerInitialOffsetMs >= 0 THEN workerInitialOffsetMs ELSE 0

\* WorkerImpl.tasks.find(task => task.worker.name === n): 0 if none.
FindTask(n) ==
  IF \E i \in 1..Len(tasks) : bld[tasks[i]].name = n
    THEN tasks[CHOOSE i \in 1..Len(tasks) :
                 /\ bld[tasks[i]].name = n
                 /\ \A k \in 1..(i - 1) : bld[tasks[k]].name # n]
    ELSE 0

\* A timer setTimeout(loop, delay) has just created for builder b.
NewTimer(b, d) == [owner |-> b, state |-> "pending", delay |-> d]

\* A polling cycle of builder b that has just started.
NewCycle(b) ==
  [owner |-> b, run |-> "running", race |-> "pending", tmo |-> "pending",
   h |-> 0]

\* name(n)
BuilderName(b, n) ==
  /\ sets < MaxSets
  /\ sets' = sets + 1
  /\ bld' = [bld EXCEPT ![b].name = n]
  /\ UNCHANGED << driverVars, tasks, tm, cyc, nextHandler >>

\* connection(c)
BuilderConnection(b, c) ==
  /\ sets < MaxSets
  /\ sets' = sets + 1
  /\ bld' = [bld EXCEPT ![b].connection = c]
  /\ UNCHANGED << driverVars, tasks, tm, cyc, nextHandler >>

\* concurrency(n)
BuilderConcurrency(b, n) ==
  /\ sets < MaxSets
  /\ sets' = sets + 1
  /\ bld' = [bld EXCEPT ![b].concurrency = n]
  /\ UNCHANGED << driverVars, tasks, tm, cyc, nextHandler >>

\* handler(h), h being a new function: the builder takes the wrapped
\* handler; then the task registered under its name, if any, is re-armed
\* with it, else the builder registers itself.
BuilderHandler(b) ==
  /\ nextHandler <= MaxHandlers
  /\ nextHandler' = nextHandler + 1
  /\ LET t == FindTask(bld[b].name) IN
       IF t # 0
         THEN /\ bld' = [[bld EXCEPT ![b].handler = nextHandler]
                           EXCEPT ![t].isRegistered = TRUE,
                                  ![t].handler = nextHandler]
              /\ UNCHANGED tasks
         ELSE /\ bld' = [bld EXCEPT ![b].handler = nextHandler,
                                    ![b].isRegistered = TRUE]
              /\ tasks' = Append(tasks, b)
  /\ UNCHANGED << driverVars, tm, cyc, sets >>

LoopsToSpawnTwice(b) == 2

\* The number of loops start() spawns: this.worker.concurrency ?? 1.
LoopsToSpawn(b) == IF bld[b].concurrency = 0 THEN 1 ELSE bld[b].concurrency

\* start() returns at once: the task is not registered or has timers.
StartReturns(b) == ~bld[b].isRegistered \/ Len(bld[b].timers) > 0

\* The timers after start(): n times spawn(), each creating
\* setTimeout(loop, initialOffset).
StartTm(b) ==
  IF StartReturns(b)
    THEN tm
    ELSE tm \o [i \in 1..LoopsToSpawn(b) |->
                  NewTimer(b, computeInitialOffset(workerInterval))]

\* The builders after start(): each spawn() pushes its timer to this.timers.
StartBld(b) ==
  IF StartReturns(b)
    THEN bld
    ELSE [bld EXCEPT ![b].timers =
                       @ \o [i \in 1..LoopsToSpawn(b) |-> Len(tm) + i]]

\* start()
BuilderStart(b) ==
  /\ Len(StartTm(b)) <= MaxTimers
  /\ tm' = StartTm(b)
  /\ bld' = StartBld(b)
  /\ UNCHANGED << driverVars, tasks, cyc, nextHandler, sets >>

\* stop(): clearTimeout on every timer of this.timers, then this.timers = [].
BuilderStop(b) ==
  /\ IF ~bld[b].isRegistered
       THEN UNCHANGED << bld, tm >>
       ELSE /\ bld' = [bld EXCEPT ![b].isRegistered = FALSE,
                                  ![b].timers = << >>]
            /\ tm' = [t \in 1..Len(tm) |->
                        IF /\ \E i \in 1..Len(bld[b].timers) :
                                bld[b].timers[i] = t
                           /\ tm[t].state = "pending"
                          THEN [tm[t] EXCEPT !.state = "cleared", !.delay = 0]
                          ELSE tm[t]]
  /\ UNCHANGED << driverVars, tasks, cyc, nextHandler, sets >>

\* A loop timer fires and calls loop(): return if the task is not
\* registered, else start this.run() and the timeout timer of the race.
LoopFire(t) ==
  /\ t \in 1..Len(tm)
  /\ tm[t].state = "pending"
  /\ tm' = [tm EXCEPT ![t].state = "fired", ![t].delay = 0]
  /\ IF ~bld[tm[t].owner].isRegistered
       THEN UNCHANGED cyc
       ELSE /\ Len(cyc) < MaxCycles
            /\ cyc' = Append(cyc, NewCycle(tm[t].owner))
  /\ UNCHANGED << driverVars, tasks, bld, nextHandler, sets >>

\* The finally of loop(): this.timers.push(setTimeout(loop, delay)) with
\* delay = intervalToRun + this.computeJitter(intervalToRun).
Reschedule(b) ==
  /\ Len(tm) < MaxTimers
  /\ \E j \in computeJitter(workerInterval) :
       tm' = Append(tm, NewTimer(b, workerInterval + j))
  /\ bld' = [bld EXCEPT ![b].timers = Append(@, Len(tm) + 1)]

\* this.run() of cycle c hands a job to this.worker.handler.
RunInvoke(c) ==
  /\ c \in 1..Len(cyc)
  /\ cyc[c].run = "running" /\ cyc[c].h = 0
  /\ cyc' = [cyc EXCEPT ![c].h = bld[cyc[c].owner].handler]
  /\ UNCHANGED << driverVars, tasks, bld, tm, nextHandler, sets >>

\* this.run() of cycle c resolves or rejects (handler success, handler
\* failure or backend error); the race settles unless it timed out before.
RunEnd(c, outcome) ==
  /\ c \in 1..Len(cyc)
  /\ cyc[c].run = "running"
  /\ cyc' = [cyc EXCEPT ![c].run = "ended", ![c].race = "settled",
                        ![c].h = 0]
  /\ IF cyc[c].race = "pending"
       THEN Reschedule(cyc[c].owner)
       ELSE UNCHANGED << bld, tm >>
  /\ UNCHANGED << driverVars, tasks, nextHandler, sets >>

\* The timeout timer of cycle c fires: the race rejects with
\* WorkerTimeoutException unless this.run() settled it before.
TimeoutFire(c) ==
  /\ c \in 1..Len(cyc)
  /\ cyc[c].tmo = "pending"
  /\ cyc' = [cyc EXCEPT ![c].tmo = "fired", ![c].race = "settled"]
  /\ IF cyc[c].race = "pending"
       THEN Reschedule(cyc[c].owner)
       ELSE UNCHANGED << bld, tm >>
  /\ UNCHANGED << driverVars, tasks, nextHandler, sets >>

NextWorker ==
  \/ \E b \in Builders, n \in Names : BuilderName(b, n)
  \/ \E b \in Builders, c \in Connections : BuilderConnection(b, c)
  \/ \E b \in Builders, n \in 1..2 : BuilderConcurrency(b, n)
  \/ \E b \in Builders : BuilderHandler(b)
  \/ \E b \in Builders : BuilderStart(b)
  \/ \E b \in Builders : BuilderStop(b)
  \/ \E t \in 1..MaxTimers : LoopFire(t)
  \/ \E c \in 1..MaxCycles : RunInvoke(c)
  \/ \E c \in 1..MaxCycles, o \in {"resolved", "rejected"} : RunEnd(c, o)
  \/ \E c \in 1..MaxCycles : TimeoutFire(c)

InitWorker == Init /\ driver = "memory" /\ attempts = 1

SpecWorker == InitWorker /\ [][NextWorker]_vars

\* ================================================================ progress
\* The memory driver under a caller that keeps calling process(), one call
\* after the other, with handlers that ack the job or throw. The number of
\* calls is not bounded here. process() reads job.attempts only in
\* `job.attempts > 0`, so counters below -MaxBelow are folded onto
\* -MaxBelow, and the lease count stops at MaxAttempts + 1.

Max(a, b) == IF a >= b THEN a ELSE b

\* process() is called: peek() up to its await.
LivePeekCall(p) ==
  /\ driver = "memory"
  /\ FreeFrame(p)
  /\ NoCallInFlight
  /\ heap' = MemReleased(heap, now)
  /\ w' = Set(w, p, [Idle EXCEPT !.pc = "peekAwait", !.op = "process"])
  /\ UNCHANGED << cfgVars, now, nextId, calls, queue, dlq, table, ackedIds,
                  leases, clean >>

\* process(), after `await this.peek()`: the lease and the handler call.
LiveLease(p) ==
  /\ driver = "memory"
  /\ w[p].pc = "peeked"
  /\ IF w[p].job = NoJob
       THEN /\ w' = Set(w, p, Idle)
            /\ UNCHANGED << heap, ackedIds, leases >>
       ELSE LET id == w[p].job IN
            /\ \E r \in RequeueJitters :
                 w' = Set(w, p, [w[p] EXCEPT !.pc = "handler", !.jitter = r,
                                             !.grantAt = now])
            /\ ackedIds' = ackedIds \ {id}
            /\ heap' = [heap EXCEPT ![id].attempts = Max(@ - 1, 0 - MaxBelow),
                                    ![id].reservedUntil =
                                        now + visibilityTimeout]
            /\ leases' = Set(leases, id, Min(leases[id] + 1, MaxAttempts + 1))
  /\ UNCHANGED << cfgVars, now, nextId, calls, queue, dlq, table, clean >>

\* The handler returns after it has acked the job.
LiveReturn(p) ==
  /\ w[p].pc = "handler"
  /\ w[p].job \in ackedIds
  /\ MemHandlerReturn(p)

\* The handler ends: it returns, having acked, or it throws.
LiveHandlerEnd(p) ==
  \/ LiveReturn(p)
  \/ \E v \in ThrownValues, c \in BOOLEAN : MemHandlerThrow(p, v, c)

NextLive ==
  \/ \E d \in Payloads : MemAdd(d)
  \/ \E p \in Workers : LivePeekCall(p)
  \/ \E p \in Workers : MemPeekResume(p)
  \/ \E p \in Workers : LiveLease(p)
  \/ \E p \in Workers : MemAck(p)
  \/ \E p \in Workers : LiveReturn(p)
  \/ \E p \in Workers, v \in ThrownValues, c \in BOOLEAN :
       MemHandlerThrow(p, v, c)
  \/ \E p \in Workers : MemCatchResume(p)
  \/ \E p \in Workers : MemDeadletterPush(p)
  \/ \E p \in Workers : Rejected(p)
  \/ Tick

\* Fairness: process() keeps being called, time keeps advancing (up to
\* MaxTime), every await resumes and every handler ends.
LiveFairness ==
  /\ WF_vars(\E p \in Workers : LivePeekCall(p))
  /\ WF_vars(Tick)
  /\ WF_vars(\E p \in Workers : MemPeekResume(p))
  /\ WF_vars(\E p \in Workers : LiveLease(p))
  /\ WF_vars(\E p \in Workers : LiveHandlerEnd(p))
  /\ WF_vars(\E p \in Workers : MemCatchResume(p))
  /\ WF_vars(\E p \in Workers : MemDeadletterPush(p))
  /\ WF_vars(\E p \in Workers : Rejected(p))

SpecLive == InitMem /\ [][NextLive]_vars /\ LiveFairness

\* ======================================================= connection factory
\* src/unnamed/part_008 (class ConnectionFactory), src/src/queue/QueueImpl.ts,
\* src/src/drivers/VanillaDriver.ts:351-445 (class Driver), and connect(),
\* close() and add() of src/src/drivers/MemoryDriver.ts.

\* ConnectionFactory.drivers: the driver kinds with an implementation, under
\* the names QueueImpl.connection (QueueImpl.ts:86-89) and the fixture
\* config/queue.ts give them (part_008 registers the memory driver class
\* under its former name 'vanilla').
RegisteredDrivers == {"fake", "aws_sqs", "memory", "database"}

\* Config.get(`queue.connections.${con}`).driver
configDriver(con) ==
  CASE con \in GoodCons -> "memory"
    [] con = "not-found" -> "not-found"
    [] OTHER -> "undefined"

\* The options of connect(): connect, force, saveOnFactory.
ConnectOptions ==
  [connect : BOOLEAN, force : BOOLEAN, saveOnFactory : BOOLEAN]

\* Options.create(options, {force: false, connect: true, saveOnFactory: true})
DefaultOptions == [connect |-> TRUE, force |-> FALSE, saveOnFactory |-> TRUE]

\* this.client = { queues: {} }
NewClient == [queue |-> << >>, deadletter |-> << >>]

\* new Driver(con, client): a driver given a client starts connected.
NewDriver(con, client) ==
  [connection |-> con, client |-> client,
   isConnected |-> client # NoClient, isSavedOnFactory |-> client # NoClient]

getConnectionDriverLate(con) == "none"

\* getConnectionDriver(con): the exception it throws, "none" if it returns.
getConnectionDriver(con) ==
  IF configDriver(con) = "undefined" THEN "NotImplementedConfigException"
  ELSE IF configDriver(con) \notin RegisteredDrivers
         THEN "NotFoundDriverException"
         ELSE "none"

\* The connections map after fabricate(con) on the map cs.
fabricateConnections(cs, con) ==
  IF getConnectionDriver(con) # "none" THEN cs
  ELSE IF cs[con] = NoEntry THEN [cs EXCEPT ![con] = NoClient] ELSE cs

\* The driver fabricate(con) returns on the map cs.
fabricate(cs, con) ==
  IF cs[con] # NoEntry /\ cs[con] # NoClient
    THEN NewDriver(con, cs[con])
    ELSE NewDriver(con, NoClient)

\* connect(o) on driver d goes past its two early returns.
Connects(d, o) == o.connect /\ ~(d.isConnected /\ ~o.force)

\* The driver d after connect(o), n being the client it would create.
connectDriver(d, o, n) ==
  IF Connects(d, o)
    THEN [d EXCEPT !.client = n, !.isConnected = TRUE,
                   !.isSavedOnFactory = o.saveOnFactory]
    ELSE d

\* The connections map after connect(o) on driver d.
connectConnections(cs, d, o, n) ==
  IF Connects(d, o) /\ o.saveOnFactory
    THEN [cs EXCEPT ![d.connection] = n]
    ELSE cs

\* The clients after connect(o) on driver d.
connectStores(st, d, o) ==
  IF Connects(d, o) THEN Append(st, NewClient) ELSE st

\* QueueImpl.connection(con, o): fabricate(con), then new QueueImpl(o),
\* whose constructor fabricates and connects a driver of the default
\* connection, then connect(o) on the driver fabricated first.
QueueConnection(con, o) ==
  /\ Len(hd) < MaxHandles
  /\ IF getConnectionDriver(con) # "none"
       THEN /\ err' = getConnectionDriver(con)
            /\ UNCHANGED << connections, hd, stores >>
       ELSE LET cs1 == fabricateConnections(connections, con)
                d1 == fabricate(connections, con)
                cs2 == fabricateConnections(cs1, DefaultConnection)
                dt == fabricate(cs1, DefaultConnection)
                cs3 == connectConnections(cs2, dt, o, Len(stores) + 1)
                st3 == connectStores(stores, dt, o)
            IN /\ Len(connectStores(st3, d1, o)) <= MaxClients
               /\ connections' = connectConnections(cs3, d1, o, Len(st3) + 1)
               /\ stores' = connectStores(st3, d1, o)
               /\ hd' = Append(hd, connectDriver(d1, o, Len(st3) + 1))
               /\ err' = "none"
  /\ UNCHANGED otherVars

\* QueueImpl.connect(o) on handle h.
HandleConnect(h, o) ==
  /\ h \in 1..Len(hd)
  /\ Len(connectStores(stores, hd[h], o)) <= MaxClients
  /\ connections' = connectConnections(connections, hd[h], o, Len(stores) + 1)
  /\ stores' = connectStores(stores, hd[h], o)
  /\ hd' = [hd EXCEPT ![h] = connectDriver(hd[h], o, Len(stores) + 1)]
  /\ err' = "none"
  /\ UNCHANGED otherVars

closeConnectionsKeep(cs, d) == cs

\* The connections map after MemoryDriver.close() on driver d.
closeConnections(cs, d) ==
  IF ~d.isConnected THEN cs ELSE [cs EXCEPT ![d.connection] = NoClient]

\* The driver d after MemoryDriver.close(): this.client is kept.
closeDriver(d) == [d EXCEPT !.isConnected = FALSE]

\* QueueImpl.close() on handle h.
HandleClose(h) ==
  /\ h \in 1..Len(hd)
  /\ connections' = closeConnections(connections, hd[h])
  /\ hd' = [hd EXCEPT ![h] = closeDriver(hd[h])]
  /\ err' = "none"
  /\ UNCHANGED << stores, otherVars >>

\* QueueImpl.closeAll(): for every connection of the map, fabricate a
\* driver, close() it and setClient(con, null).
closeAllConnections(cs) ==
  [c \in ConNames |-> IF cs[c] = NoEntry THEN NoEntry ELSE NoClient]

CloseAll ==
  /\ connections' = closeAllConnections(connections)
  /\ err' = "none"
  /\ UNCHANGED << hd, stores, otherVars >>

\* The clients after MemoryDriver.add(data) on driver d: defineQueue() and
\* the push go to this.client, whatever isConnected says.
addStores(st, d) ==
  IF d.client = NoClient THEN st
  ELSE [st EXCEPT ![d.client].queue = Append(@, Len(@) + 1)]

\* What MemoryDriver.add(data) on driver d throws.
addThrows(d) == IF d.client = NoClient THEN "TypeError" ELSE "none"

\* QueueImpl.add(data) on handle h.
HandleAdd(h) ==
  /\ h \in 1..Len(hd)
  /\ hd[h].client # NoClient => Len(stores[hd[h].client].queue) < MaxAdds
  /\ stores' = addStores(stores, hd[h])
  /\ err' = addThrows(hd[h])
  /\ UNCHANGED << connections, hd, otherVars >>

\* QueueImpl.isConnected() on handle h: ConnectionFactory.hasClient.
QueueIsConnected(cs, h) ==
  cs[hd[h].connection] # NoEntry /\ cs[hd[h].connection] # NoClient

\* MemoryDriver.length() on handle h (its driver has a client).
HandleLength(h) == Len(stores[hd[h].client].queue)

NextFactory ==
  \/ \E con \in ConNames, o \in ConnectOptions : QueueConnection(con, o)
  \/ \E h \in 1..MaxHandles, o \in ConnectOptions : HandleConnect(h, o)
  \/ \E h \in 1..MaxHandles : HandleClose(h)
  \/ CloseAll
  \/ \E h \in 1..MaxHandles : HandleAdd(h)

InitFactory == Init /\ driver = "memory" /\ attempts = 1

SpecFactory == InitFactory /\ [][NextFactory]_vars

\* ================================================= calculateBackoffDelay
\* src/src/drivers/VanillaDriver.ts:447-463 as a function of the policy, the
\* attempt budget and the attempts left.

\* One call calculateBackoffDelay(left) on a driver configured with
\* `attempts` and `backoff`, returning one of the values Math.random() allows.
Calculate(left) ==
  /\ attemptsLeft' = left
  /\ random' \in calculateBackoffDelay(left)
  /\ UNCHANGED << driver, attempts, backoff, now, nextId, calls, heap, queue,
                  dlq, table, ackedIds, w, leases, clean, schedVars,
                  facVars, extVars >>

NextBackoff == \E left \in 0..attempts : Calculate(left)

InitBackoff ==
  /\ backoff \in AllBackoffPolicies
  /\ sqsDrv = NewSqsDriver
  /\ InitState
  /\ driver = "memory"

SpecBackoff == InitBackoff /\ [][NextBackoff]_vars

\* ============================================================ SQS driver
\* src/src/drivers/AwsSqsDriver.ts, with the SQS queue reduced to what the
\* commands of the driver do to it: a message is [id, body, count,
\* visibleAt, fails], count its ApproximateReceiveCount, visibleAt the time
\* from which ReceiveMessage can return it, fails the number of its
\* deliveries whose handler rejected (history). The handle of a message
\* (ReceiptHandle) is its id. The clock counts units of 1 / SecMs second.

MaxVisibility == 43200    \* the largest VisibilityTimeout, in seconds

\* The connections the driver is created with and the queues they name.
SqsDrivers ==
  { SqsDriver(type, nameFifo, opt, fifo, dedup) :
      type \in {"standard", "fifo"}, nameFifo \in BOOLEAN,
      opt \in {"undefined", "true", "false"}, fifo \in BOOLEAN,
      dedup \in BOOLEAN }

\* msToS(v): Math.ceil(v / 1000) clamped to 0..43200.
msToS(v) == Max(0, Min(MaxVisibility, (v + SecMs - 1) \div SecMs))

\* The VisibilityTimeout changeJobVisibility sends: Math.floor(seconds)
\* clamped to 0..43200.
VisibilityTimeout(seconds) == Max(0, Min(MaxVisibility, seconds))

SqsHas(msgs, id) == \E i \in 1..Len(msgs) : msgs[i].id = id

SqsMessage(msgs, id) ==
  msgs[CHOOSE i \in 1..Len(msgs) : msgs[i].id = id]

\* ChangeMessageVisibilityCommand: the message is invisible for the given
\* seconds from now on.
changeJobVisibility(msgs, id, seconds) ==
  [i \in 1..Len(msgs) |->
     IF msgs[i].id = id
       THEN [msgs[i] EXCEPT
               !.visibleAt = now + VisibilityTimeout(seconds) * SecMs]
       ELSE msgs[i]]

\* DeleteMessageCommand.
DeleteMessage(msgs, id) ==
  IF SqsHas(msgs, id)
    THEN RemoveAt(msgs, CHOOSE i \in 1..Len(msgs) : msgs[i].id = id)
    ELSE msgs

\* What no call on the SQS driver changes.
sqsOthers == << driver, attempts, backoff, heap, queue, dlq, table,
               ackedIds, w, leases, clean, schedVars, facVars, calcVars,
               other >>

\* ensureFifoAttrsLoaded() returns at once, without asking the server.
FifoAttrsLoaded(d) ==
  d.type # "fifo" \/ d.fifoContentBasedDedup # "undefined"

\* ensureFifoAttrsLoaded() throws NotFifoSqsQueueTypeException.
FifoCheckThrows(d) ==
  ~FifoAttrsLoaded(d) /\ (~d.FifoQueue \/ ~d.nameFifo)

\* add(data): on type fifo ensureFifoAttrsLoaded(), then SendMessageCommand.
\* A server whose queue kind is not the configured one may refuse the
\* command it is sent (accepted = FALSE).
SqsAdd(data, accepted) ==
  /\ nextId <= MaxJobs
  /\ accepted \/ (sqsDrv.type = "fifo") # sqsDrv.FifoQueue
  /\ nextId' = nextId + 1
  /\ IF FifoCheckThrows(sqsDrv)
       THEN /\ sqsDrv' = [sqsDrv EXCEPT !.adds = @ + 1,
                            !.thrown = "NotFifoSqsQueueTypeException"]
            /\ sqs' = sqs
       ELSE /\ sqsDrv' =
                 [sqsDrv EXCEPT
                    !.adds = @ + 1,
                    !.sends = @ + 1,
                    !.thrown = IF accepted THEN "none" ELSE "SQSServiceException",
                    !.fifoContentBasedDedup =
                       IF FifoAttrsLoaded(sqsDrv) THEN @
                       ELSE IF sqsDrv.ContentBasedDeduplication
                              THEN "true" ELSE "false"]
            /\ sqs' = IF accepted
                        THEN Append(sqs, [id |-> nextId, body |-> data,
                                          count |-> 0, visibleAt |-> now,
                                          fails |-> 0])
                        ELSE sqs
  /\ UNCHANGED << sqsOthers, now, calls, sqsDlq, sqsCall >>

\* process() finds no message: pop() returns null.
SqsPopEmpty ==
  /\ sqsCall.pc = "idle"
  /\ calls < MaxCalls
  /\ \A i \in 1..Len(sqs) : sqs[i].visibleAt > now
  /\ calls' = calls + 1
  /\ UNCHANGED << sqsOthers, now, nextId, sqs, sqsDlq, sqsCall, sqsDrv >>

\* process() up to the handler: pop() receives a visible message, which
\* counts the delivery, takes attempts from that count and sets the
\* visibility to visibilityTimeout; ackedIds.delete(job.id).
SqsPop(i) ==
  /\ sqsCall.pc = "idle"
  /\ calls < MaxCalls
  /\ i \in 1..Len(sqs)
  /\ sqs[i].visibleAt <= now
  /\ calls' = calls + 1
  /\ LET receiveCount == sqs[i].count + 1
     IN /\ sqs' = changeJobVisibility(
                    [sqs EXCEPT ![i].count = receiveCount], sqs[i].id,
                    msToS(visibilityTimeout))
        /\ \E jitter \in RequeueJitters :
             sqsCall' = [pc |-> "handler", id |-> sqs[i].id,
                         attempts |-> Max(attempts - receiveCount, 0),
                         data |-> sqs[i].body, count |-> receiveCount,
                         acked |-> FALSE, jitter |-> jitter,
                         err |-> "none"]
  /\ UNCHANGED << sqsOthers, now, nextId, sqsDlq, sqsDrv >>

\* The handler calls ack(job.id).
SqsAck ==
  /\ sqsCall.pc = "handler"
  /\ ~sqsCall.acked
  /\ sqs' = DeleteMessage(sqs, sqsCall.id)
  /\ sqsCall' = [sqsCall EXCEPT !.acked = TRUE]
  /\ UNCHANGED << sqsOthers, now, nextId, calls, sqsDlq, sqsDrv >>

\* The handler returns: without an ack the visibility becomes
\* noAckDelayMs + requeueJitterMs.
SqsHandlerReturn ==
  /\ sqsCall.pc = "handler"
  /\ sqs' = IF sqsCall.acked THEN sqs
            ELSE changeJobVisibility(sqs, sqsCall.id,
                                     msToS(noAckDelayMs + sqsCall.jitter))
  /\ sqsCall' = SqsIdle
  /\ UNCHANGED << sqsOthers, now, nextId, calls, sqsDlq, sqsDrv >>

\* The catch block after the log statement. Retry: changeJobVisibility,
\* which the server refuses for a message that was deleted. Otherwise
\* sendJobToDLQ(job), with ack(job.id) still to come.
SqsCatchTail ==
  LET receiveCount == sqsCall.count
      left == Max(attempts - receiveCount, 0)
      shouldRetry == left > 0
  IN IF shouldRetry
       THEN IF SqsHas(sqs, sqsCall.id)
              THEN /\ \E delay \in calculateBackoffDelay(sqsCall.attempts) :
                        sqs' = changeJobVisibility(
                                 sqs, sqsCall.id,
                                 msToS(delay + sqsCall.jitter))
                   /\ sqsDlq' = sqsDlq
                   /\ sqsCall' = SqsIdle
              ELSE /\ sqs' = sqs
                   /\ sqsDlq' = sqsDlq
                   /\ sqsCall' = [SqsIdle EXCEPT !.pc = "rejected"]
       ELSE /\ sqs' = sqs
            /\ sqsDlq' = Append(sqsDlq, sqsCall.data)
            /\ sqsCall' = [sqsCall EXCEPT !.pc = "dlqSent"]

\* The handler rejects with v: the catch block is entered.
SqsHandlerThrow(v) ==
  /\ sqsCall.pc = "handler"
  /\ sqsCall' = [sqsCall EXCEPT !.pc = "catch", !.err = v]
  /\ sqs' = [i \in 1..Len(sqs) |->
              IF sqs[i].id = sqsCall.id
                THEN [sqs[i] EXCEPT !.fails = @ + 1] ELSE sqs[i]]
  /\ UNCHANGED << sqsOthers, now, nextId, calls, sqsDlq, sqsDrv >>

\* The catch block up to its next await. The log statement reads a
\* property of err: with null or undefined it throws a TypeError and
\* process() rejects. With prettifyException it awaits prettify().
SqsCatch(prettify) ==
  /\ sqsCall.pc = "catch"
  /\ IF sqsCall.err = "null"
       THEN /\ sqsCall' = [SqsIdle EXCEPT !.pc = "rejected"]
            /\ UNCHANGED << sqs, sqsDlq >>
       ELSE IF prettify
         THEN /\ sqsCall' = [sqsCall EXCEPT !.pc = "prettify"]
              /\ UNCHANGED << sqs, sqsDlq >>
         ELSE SqsCatchTail
  /\ UNCHANGED << sqsOthers, now, nextId, calls, sqsDrv >>

\* prettify() resolved.
SqsCatchResume ==
  /\ sqsCall.pc = "prettify"
  /\ SqsCatchTail
  /\ UNCHANGED << sqsOthers, now, nextId, calls, sqsDrv >>

\* After sendJobToDLQ: ack(job.id).
SqsDlqAck ==
  /\ sqsCall.pc = "dlqSent"
  /\ sqs' = DeleteMessage(sqs, sqsCall.id)
  /\ sqsCall' = SqsIdle
  /\ UNCHANGED << sqsOthers, now, nextId, calls, sqsDlq, sqsDrv >>

\* The caller has seen process() reject.
SqsRejected ==
  /\ sqsCall.pc = "rejected"
  /\ sqsCall' = SqsIdle
  /\ UNCHANGED << sqsOthers, now, nextId, calls, sqs, sqsDlq, sqsDrv >>

NextSqs ==
  \/ \E data \in Payloads, accepted \in BOOLEAN : SqsAdd(data, accepted)
  \/ SqsPopEmpty
  \/ \E i \in 1..Len(sqs) : SqsPop(i)
  \/ SqsAck
  \/ SqsHandlerReturn
  \/ \E v \in ThrownValues : SqsHandlerThrow(v)
  \/ \E prettify \in BOOLEAN : SqsCatch(prettify)
  \/ SqsCatchResume
  \/ SqsDlqAck
  \/ SqsRejected
  \/ Tick

\* The driver field is not read by the calls on the SQS driver.
InitSqs ==
  /\ backoff \in BackoffPolicies
  /\ sqsDrv \in SqsDrivers
  /\ InitState
  /\ driver = "memory"

SpecSqs == InitSqs /\ [][NextSqs]_vars

\* ================================================================ properties

\* The frames whose handler is running.
InHandler(p) == w[p].pc = "handler"

\* C1 (memory driver, lease exclusivity): no job that is still in the queue
\* is in the hands of two handlers at once, unless the lease of the first
\* had expired when the second was handed the job.
C1_MemLeaseExclusive ==
  driver = "memory" =>
    \A p, q \in Workers :
      ( /\ p # q
        /\ InHandler(p) /\ InHandler(q)
        /\ w[p].job = w[q].job
        /\ InQueue(w[p].job)
        /\ w[p].grantAt <= w[q].grantAt )
      => w[q].grantAt >= w[p].grantAt + visibilityTimeout

\* The steps of process() in the frame of worker p, by what they do.
\* The job is handed to the handler.
HandOut(p) == w[p].pc \in {"peeked", "selected"} /\ w'[p].pc = "handler"

\* The dead-letter branch has run to its end and process() returns.
DeadletterDone(p) == w[p].pc = "ackAwait" /\ w'[p].pc = "idle"

\* The id of the job in the frame of p.
JobId(p) == IF driver = "memory" THEN w[p].job ELSE w[p].job.id

\* The handler returned normally, for the first time on this job.
HandlerReturned(p) ==
  w[p].pc = "handler" /\ clean[JobId(p)] /\ ~clean'[JobId(p)]

\* The handler threw, on a job no handler run has returned on so far.
HandlerThrew(p) ==
  w[p].pc = "handler" /\ w'[p].pc # "handler"
  /\ clean[JobId(p)] /\ clean'[JobId(p)]

\* The job the frame of p works on (memory: the shared object).
JobOf(p) == IF driver = "memory" THEN heap[w[p].job] ELSE w[p].job

\* The source queue q (memory) or table t (database) holds job id.
InSource(q, t, id) ==
  IF driver = "memory" THEN Has(q, id)
  ELSE \E r \in t : r.id = id /\ r.queue = QueueName

\* The copies of job id in the dead-letter queue d (memory) or table t.
DeadCopies(d, t, id) ==
  IF driver = "memory"
    THEN { d[i] : i \in { k \in 1..Len(d) : d[k].id = id } }
    ELSE { r \in t : r.id = id /\ r.queue = Deadletter }

\* C2 (dead-letter completeness, both drivers): when process() returns from
\* the dead-letter branch for a job whose counter was 0 after the lease
\* decrement, the job is absent from the source queue and the dead-letter
\* queue holds a copy with attempts 0, the same data and formerQueue equal
\* to the source queue name.
C2_DeadLetterComplete ==
  [][ \A p \in Workers :
        (DeadletterDone(p) /\ JobOf(p).attempts = 0) =>
          /\ ~InSource(queue', table', JobId(p))
          /\ \E c \in DeadCopies(dlq', table', JobId(p)) :
               /\ c.attempts = 0
               /\ c.data = JobOf(p).data
               /\ c.formerQueue = QueueName ]_vars

\* C3 (attempt budget, memory driver, sequential calls): a job added with
\* budget N whose handler throws on every attempt, without acking, is
\* handed to the handler at most N times; each of the first N-1 failures
\* leaves it in the source queue and out of the dead-letter queue; the
\* N-th failure takes the dead-letter branch, after which the job is off
\* the source queue and in the dead-letter queue.
C3_AttemptBudget ==
  [][ \A p \in Workers :
        LET id == w[p].job
            threw == HandlerThrew(p) /\ clean[id] /\ InQueue(id)
                     /\ id \notin ackedIds
        IN
        /\ (HandOut(p) /\ clean[id]) => leases'[id] <= attempts
        /\ (threw /\ leases[id] < attempts) =>
             Has(queue', id) /\ DeadCopies(dlq', table', id) = {}
        /\ (threw /\ leases[id] = attempts) =>
             w'[p].pc \in {"catchAwait", "ackAwait"}
        /\ (w[p].pc = "catchAwait" /\ w'[p].pc # "catchAwait"
            /\ clean[id] /\ leases[id] = attempts) =>
             w'[p].pc = "ackAwait"
        /\ (DeadletterDone(p) /\ clean[id] /\ leases[id] = attempts) =>
             ~Has(queue', id) /\ DeadCopies(dlq', table', id) # {} ]_vars

\* The stored copies of job id in the source queue: heap h and queue q
\* (memory) or table t (database).
SourceCopies(h, q, t, id) ==
  IF driver = "memory"
    THEN IF Has(q, id) THEN { h[id] } ELSE {}
    ELSE { r \in t : r.id = id /\ r.queue = QueueName }

\* C4 (attempt monotonicity, both drivers): after every step the stored
\* counter of a job is its initial budget minus the leases process() has
\* granted on it, and the failure that takes the dead-letter branch is the
\* failure of the lease that brought the counter to 0.
C4_AttemptMonotone ==
  [][ /\ \A id \in JobIds :
           \A j \in SourceCopies(heap', queue', table', id) :
             j.attempts = attempts - leases'[id]
      /\ \A p \in Workers :
           (w[p].pc \in {"handler", "catchAwait"} /\ w'[p].pc = "ackAwait")
             => JobOf(p).attempts = 0 ]_vars

\* C5 (both drivers): every job stored in a source or dead-letter queue
\* has an attempts counter >= 0.
C5_AttemptsNonNegative ==
  /\ \A i \in 1..Len(queue) : heap[queue[i]].attempts >= 0
  /\ \A i \in 1..Len(dlq) : dlq[i].attempts >= 0
  /\ \A r \in table : r.attempts >= 0

\* Worker p holds a lease on job id: its handler runs and the job has not
\* been acked.
Holds(p, id) ==
  InHandler(p) /\ JobId(p) = id /\ InSource(queue, table, id)

\* The lease worker p took has expired.
Expired(p) == now >= w[p].grantAt + visibilityTimeout

\* The jobs a direct peek() of worker q returns in this step.
PeekReturns(q) ==
  IF w[q].op # "peek" \/ w'[q].pc # "idle" THEN {}
  ELSE IF w[q].pc = "peekAwait" THEN { MemFind(heap, now) } \ { NoJob }
  ELSE IF w[q].pc = "released"
    THEN { r.id : r \in DbFirstRows(w[q].pnow) }
  ELSE {}

\* process() is called in the frame of worker q.
ProcessCalled(q) ==
  w[q].pc = "idle" /\ w'[q].pc \in {"peekAwait", "released"}
  /\ w'[q].op = "process"

\* C6 (lease expiry reclaim, both drivers): a job leased by process() at t
\* and not acked is handed out by no process() or peek() before
\* t + visibilityTimeout; and a process() call made at or after
\* t + visibilityTimeout, with that job the only one of the queue, finds
\* it released and selects it.
C6_LeaseExpiryReclaim ==
  [][ \A p, q \in Workers : p # q =>
        /\ (HandOut(q) /\ Holds(p, JobId(q))) => Expired(p)
        /\ \A id \in PeekReturns(q) : Holds(p, id) => Expired(p)
        /\ \A id \in JobIds :
             ( /\ ProcessCalled(q)
               /\ Holds(p, id) /\ Expired(p)
               /\ \A j \in SourceCopies(heap, queue, table, id) :
                    /\ j.reservedUntil = w[p].grantAt + visibilityTimeout
                    /\ j.availableAt <= now
               /\ \A o \in JobIds \ {id} : ~InSource(queue, table, o) )
             => IF driver = "memory"
                  THEN MemFind(heap', now) = id
                  ELSE { r.id : r \in DbFirstRows(now)' } = {id} ]_vars

\* pop() of the memory driver runs in this step.
MemPopped == driver = "memory" /\ calls' = calls + 1 /\ w' = w

\* C7 (eligibility, both drivers): every job pop(), peek() or process()
\* returns or hands to a handler is stored in the source queue and
\* eligible at that moment: availableAt <= now and reservedUntil null or
\* <= now.
C7_OnlyEligible ==
  [][ /\ (MemPopped /\ Len(queue) > 0) => Eligible(heap[Head(queue)], now)
      /\ \A p \in Workers :
           /\ \A id \in PeekReturns(p) :
                \E j \in SourceCopies(heap, queue, table, id) :
                  Eligible(j, now)
           /\ (w[p].pc = "popFound" /\ w'[p].pc = "idle"
               /\ w[p].job.id # NoJob) =>
                \E j \in SourceCopies(heap, queue, table, w[p].job.id) :
                  Eligible(j, now)
           /\ HandOut(p) =>
                \E j \in SourceCopies(heap, queue, table, JobId(p)) :
                  Eligible(j, now) ]_vars

\* C8 (database driver, lease exclusivity): no row of the source queue is
\* in the hands of two handlers at once unless the lease of the first had
\* expired when the second was handed the job.
C8_DbLeaseExclusive ==
  driver = "database" =>
    \A p, q \in Workers :
      ( /\ p # q
        /\ InHandler(p) /\ InHandler(q)
        /\ w[p].job.id = w[q].job.id
        /\ \E r \in table : r.id = w[p].job.id /\ r.queue = QueueName
        /\ w[p].grantAt <= w[q].grantAt )
      => w[q].grantAt >= w[p].grantAt + visibilityTimeout

\* C10 (both drivers): no process() call rejects; a handler failure always
\* ends in the retry or in the dead-letter transition.
C10_NeverRejects ==
  \A p \in Workers : w[p].pc # "rejected"

\* The retry scenario: budget 2, fixed backoff with jitter factor 1.
RetryScenario == attempts = 2 /\ backoff = FixedBackoff

\* C9 as stated (retry then recover, memory driver, sequential calls): in
\* the retry scenario the first failure of a job leaves it in the source
\* queue and out of the dead-letter queue; a process() call that finds it
\* alone in the queue once its delay has elapsed takes it; and when the
\* handler of that second attempt returns, the job is in neither queue.
C9_RetryThenRecover ==
  [][ \A p \in Workers :
        LET id == w[p].job IN
        /\ (RetryScenario /\ HandlerThrew(p) /\ leases[id] = 1
            /\ InQueue(id) /\ id \notin ackedIds) =>
             Has(queue', id) /\ DeadCopies(dlq', table', id) = {}
        /\ \A j \in JobIds :
             (RetryScenario /\ w[p].pc = "peekAwait" /\ w[p].op = "process"
              /\ w'[p].pc = "peeked" /\ queue = << j >> /\ leases[j] = 1 /\ clean[j]
              /\ heap[j].availableAt <= now /\ heap[j].reservedUntil = Null)
               => w'[p].job = j
        /\ (RetryScenario /\ HandlerReturned(p) /\ leases[id] = 2) =>
             ~Has(queue', id) /\ DeadCopies(dlq', table', id) = {} ]_vars

\* C9 as amended: the same, for a second attempt whose handler acks the
\* job before it returns.
C9_RetryThenRecoverAcked ==
  [][ \A p \in Workers :
        LET id == w[p].job IN
        /\ (RetryScenario /\ HandlerThrew(p) /\ leases[id] = 1
            /\ InQueue(id) /\ id \notin ackedIds) =>
             Has(queue', id) /\ DeadCopies(dlq', table', id) = {}
        /\ \A j \in JobIds :
             (RetryScenario /\ w[p].pc = "peekAwait" /\ w[p].op = "process"
              /\ w'[p].pc = "peeked" /\ queue = << j >> /\ leases[j] = 1 /\ clean[j]
              /\ heap[j].availableAt <= now /\ heap[j].reservedUntil = Null)
               => w'[p].job = j
        /\ (RetryScenario /\ HandlerReturned(p) /\ leases[id] = 2
            /\ id \in ackedIds) =>
             ~Has(queue', id) /\ DeadCopies(dlq', table', id) = {} ]_vars

\* C9, the case: the first attempt of a job threw, its second attempt is
\* running and its handler has acked it.
C9_SecondAttemptAcked ==
  \E p \in Workers :
    /\ RetryScenario /\ InHandler(p)
    /\ leases[w[p].job] = 2 /\ clean[w[p].job]
    /\ w[p].job \in ackedIds /\ ~InQueue(w[p].job) /\ dlq = << >>

\* What a call of ack(id) in the current state would leave unchanged:
\* the source queue, its jobs and ackedIds.
AckChangesNothing(id) ==
  IF driver = "memory"
    THEN MemAckQueue(id) = queue /\ MemAckIds(id) = ackedIds
    ELSE DbDeleteQueueId(id) = table /\ ackedIds \cup {id} = ackedIds

\* This step is a call of ack(id): by a handler, by process() itself or
\* from outside.
AckStep(id) ==
  /\ id \in ackedIds'
  /\ \/ id \notin ackedIds
     \/ InSource(queue, table, id) /\ ~InSource(queue', table', id)

\* C11 (idempotent ack, both drivers): in the state a call of ack(id)
\* leaves, a second call of ack(id) changes nothing: the queue contents
\* stay exactly as the first call left them.
C11_AckIdempotent ==
  [][ \A id \in JobIds : AckStep(id) => AckChangesNothing(id)' ]_vars

\* C11, the case: a job has been acked while another job is still stored.
C11_AckedBesideAnother ==
  \E id, o \in JobIds :
    /\ id \in ackedIds /\ ~InSource(queue, table, id)
    /\ o # id /\ InSource(queue, table, o)

\* Job id is stored and leased: reservedUntil is set.
Leased(id) ==
  \E j \in SourceCopies(heap, queue, table, id) : j.reservedUntil # Null

\* C12 (both drivers): ack(id) removes a job only when it is leased; on an
\* id that is not stored, or stored with reservedUntil null (pending or
\* delayed), ack leaves the queue contents unchanged.
C12_AckOnlyLeased ==
  [][ \A id \in JobIds :
        (AckStep(id) /\ ~Leased(id)) => queue' = queue /\ table' = table
    ]_vars

\* add() of the memory driver runs in this step.
MemAdded == driver = "memory" /\ nextId' = nextId + 1

PeekStep(p) ==
  \/ w[p].pc = "idle" /\ w'[p].pc \in {"peekAwait", "released"}
  \/ w[p].pc \in {"peekAwait", "released"} /\ w'[p].pc # w[p].pc

\* C14 (memory driver): peek() removes no job: its steps leave the queue,
\* and so length(), as they were, change no attempts counter, and the job
\* a peek() returns is still stored in the queue.
C14_PeekKeepsJobs ==
  [][ \A p \in Workers :
        PeekStep(p) =>
          /\ queue' = queue
          /\ \A id \in 1..Len(heap) : heap'[id].attempts = heap[id].attempts
          /\ \A id \in PeekReturns(p) :
               Has(queue', id) /\ heap'[id].attempts = heap[id].attempts
    ]_vars

\* C14, the case: a direct peek() is about to return a stored job.
C14_PeekFindsJob ==
  \E p \in Workers :
    /\ driver = "memory" /\ w[p].pc = "peekAwait" /\ w[p].op = "peek"
    /\ MemFind(heap, now) # NoJob

\* ------------------------------------------------------ scheduler helpers
\* The race of cycle c settles in this step (the finally of loop() runs).
CycleSettles(c) ==
  /\ c \in 1..Len(cyc)
  /\ cyc[c].race = "pending"
  /\ cyc'[c].race = "settled"

\* This step creates exactly one timer, pending and owned by b, and touches
\* no other timer.
OneTimerMore(b) ==
  /\ Len(tm') = Len(tm) + 1
  /\ \A t \in 1..Len(tm) : tm'[t] = tm[t]
  /\ tm'[Len(tm')].owner = b
  /\ tm'[Len(tm')].state = "pending"

\* C15: while a task stays registered, every cycle of it that ends (run()
\* resolved, run() rejected, or the timeout won the race) schedules exactly
\* one next run of loop(), after a delay d with
\* interval <= d <= interval + jitterMax.
C15_CycleReschedules ==
  [][\A c \in 1..MaxCycles :
       CycleSettles(c) /\ bld[cyc[c].owner].isRegistered
         => /\ OneTimerMore(cyc[c].owner)
            /\ tm'[Len(tm')].delay >= workerInterval
            /\ tm'[Len(tm')].delay
                 <= workerInterval + maxDefault(workerInterval)]_vars

\* A cycle of a registered task timed out while run() is still going, and
\* the next run is pending with the largest delay.
C15_RescheduledAfterTimeout ==
  \E c \in 1..Len(cyc), t \in 1..Len(tm) :
    /\ cyc[c].race = "settled" /\ cyc[c].tmo = "fired"
    /\ cyc[c].run = "running"
    /\ bld[cyc[c].owner].isRegistered
    /\ tm[t].owner = cyc[c].owner /\ tm[t].state = "pending"
    /\ tm[t].delay = workerInterval + maxDefault(workerInterval)

\* C16: a cycle in flight when stop() was called finishes, and the loop,
\* finding the task unregistered, schedules no further timer.
C16_StoppedLoopSchedulesNothing ==
  [][\A c \in 1..MaxCycles :
       CycleSettles(c) /\ ~bld[cyc[c].owner].isRegistered
         => tm' = tm]_vars

\* stop() is called on the registered task b in this step.
StopStep(b) == bld[b].isRegistered /\ ~bld'[b].isRegistered

\* A timer created by task b is pending in the state given by the timers t
\* and the cycles c: a loop timer, or the timeout timer of a cycle.
TimerPending(t, c, b) ==
  \/ \E k \in 1..Len(t) : t[k].owner = b /\ t[k].state = "pending"
  \/ \E k \in 1..Len(c) : c[k].owner = b /\ c[k].tmo = "pending"

\* C17: right after stop() returns no timer the task created is pending,
\* loop timers and per-cycle timeout timers alike.
C17_StopClearsAllTimers ==
  [][\A b \in Builders : StopStep(b) => ~TimerPending(tm', cyc', b)]_vars

\* start() on task b creates loops in this step.
StartStep(b) ==
  /\ ~StartReturns(b)
  /\ tm' = StartTm(b) /\ bld' = StartBld(b)
  /\ cyc' = cyc
  /\ tm' # tm

\* C18: start() on a task that is not registered, or that has timers,
\* changes nothing; on any other task it creates exactly `concurrency`
\* (1 if unset) pending loop timers of that task and touches no other, and
\* a second start() right after it changes nothing.
C18_StartOnlyWhenIdle ==
  [][\A b \in Builders :
       /\ StartReturns(b) => StartTm(b) = tm /\ StartBld(b) = bld
       /\ StartStep(b) =>
            LET n == IF bld[b].concurrency = 0 THEN 1 ELSE bld[b].concurrency
            IN /\ Len(tm') = Len(tm) + n
               /\ \A t \in 1..Len(tm) : tm'[t] = tm[t]
               /\ \A t \in (Len(tm) + 1)..Len(tm') :
                    tm'[t].owner = b /\ tm'[t].state = "pending"
               /\ Len(bld'[b].timers) = n
               /\ \A x \in Builders \ {b} : bld'[x] = bld[x]
               /\ StartTm(b)' = tm'
               /\ StartBld(b)' = bld']_vars

\* A task with concurrency 2 was started and its two loops are waiting for
\* their first run.
C18_StartedTwoLoops ==
  \E b \in Builders :
    /\ bld[b].isRegistered /\ bld[b].concurrency = 2
    /\ Len(bld[b].timers) = 2
    /\ \A i \in 1..2 : /\ tm[bld[b].timers[i]].state = "pending"
                       /\ tm[bld[b].timers[i]].owner = b
                       /\ tm[bld[b].timers[i]].delay = workerInitialOffsetMs

\* The process() cycles of task b in flight: this.run() has not ended.
InFlight(b) == {c \in 1..Len(cyc) : cyc[c].owner = b /\ cyc[c].run = "running"}

\* C19: the process() cycles of a task in flight at the same time never
\* outnumber its concurrency (1 if unset).
C19_CyclesWithinConcurrency ==
  \A b \in Builders :
    Cardinality(InFlight(b))
      <= IF bld[b].concurrency = 0 THEN 1 ELSE bld[b].concurrency

\* C20: the worker registry holds at most one task per name.
C20_OneTaskPerName ==
  \A i, k \in 1..Len(tasks) :
    i # k => bld[tasks[i]].name # bld[tasks[k]].name

\* ------------------------------------------------------- factory helpers
\* The drivers of the Queue handles h and k are connected to connection c
\* with a client saved on the factory.
BothConnected(c, h, k) ==
  /\ hd[h].connection = c /\ hd[k].connection = c
  /\ hd[h].isConnected /\ hd[k].isConnected
  /\ hd[h].isSavedOnFactory /\ hd[k].isSavedOnFactory

\* C21: the connected drivers of one connection share one client: a driver
\* fabricated after another one connected with saveOnFactory holds the same
\* client, so a job added through one Queue handle of the connection is
\* counted by length() through every other handle of it.
C21_SharedClient ==
  \A c \in GoodCons : \A h, k \in 1..Len(hd) :
    BothConnected(c, h, k)
      => /\ hd[h].client = hd[k].client
         /\ HandleLength(h) = HandleLength(k)

\* With the connections map cs the factory holds no client for connection
\* c: isConnected() is false on every Queue handle of c and a driver
\* fabricated for c starts disconnected.
NoClientFor(cs, c) ==
  /\ cs[c] \in {NoEntry, NoClient}
  /\ \A k \in 1..Len(hd) : hd[k].connection = c => ~QueueIsConnected(cs, k)
  /\ ~fabricate(cs, c).isConnected

\* C22 as stated: after close() on any driver of connection c, and after
\* closeAll(), the factory holds no client for c.
C22_CloseClearsFactory ==
  /\ \A h \in 1..Len(hd) :
       NoClientFor(closeConnections(connections, hd[h]), hd[h].connection)
  /\ \A c \in GoodCons : NoClientFor(closeAllConnections(connections), c)

\* C22, amended: after close() on a driver of connection c that is
\* connected (its isConnected is true), and after closeAll(), the factory
\* holds no client for c: isConnected() is false on every Queue handle of
\* c, the handles that did not call close() included, and a driver
\* fabricated afterwards for c starts disconnected.
C22_ConnectedCloseClearsFactory ==
  [][
     /\ \A h \in 1..Len(hd) :
          hd[h].isConnected
            => /\ NoClientFor(closeConnections(connections, hd[h]),
                              hd[h].connection)
               /\ (~hd'[h].isConnected /\ hd'[h].client = hd[h].client)
                    => NoClientFor(connections', hd[h].connection)
     /\ \A c \in GoodCons : NoClientFor(closeAllConnections(connections), c)
    ]_vars

\* A handle was closed while another handle of its connection, still
\* flagged connected, holds the client that was shared: the factory has no
\* client for the connection.
C22_ClosedBesideOpenHandle ==
  \E h, k \in 1..Len(hd) :
    /\ h # k /\ hd[h].connection = hd[k].connection
    /\ ~hd[h].isConnected /\ hd[k].isConnected
    /\ hd[h].client # NoClient /\ hd[h].client = hd[k].client
    /\ connections[hd[h].connection] = NoClient

\* C23: fabricate(con) throws NotImplementedConfigException when con has no
\* configuration entry and NotFoundDriverException when its driver kind has
\* no registered implementation; the call that throws returns no driver and
\* leaves the connections map as it was.
C23_FabricateThrows ==
  [][
     /\ \A con \in ConNames :
          /\ configDriver(con) = "undefined"
               => getConnectionDriver(con) = "NotImplementedConfigException"
          /\ configDriver(con) \notin RegisteredDrivers \cup {"undefined"}
               => getConnectionDriver(con) = "NotFoundDriverException"
          /\ configDriver(con) \notin RegisteredDrivers
               => fabricateConnections(connections, con) = connections
     /\ err' \in {"NotImplementedConfigException", "NotFoundDriverException"}
          => connections' = connections /\ hd' = hd /\ stores' = stores
     /\ \A k \in 1..Len(hd') : configDriver(hd'[k].connection) = "memory"
    ]_vars

\* fabricate() has just thrown NotFoundDriverException while the factory
\* holds a connected client.
C23_ThrewBesideClient ==
  /\ err = "NotFoundDriverException"
  /\ \E c \in GoodCons : connections[c] # NoEntry /\ connections[c] # NoClient
  /\ connections["not-found"] = NoEntry

\* C26: add() on a driver that is not connected (never connected, or
\* closed) throws and stores no job.
C26_AddNeedsConnection ==
  \A h \in 1..Len(hd) :
    ~hd[h].isConnected
      => addThrows(hd[h]) # "none" /\ addStores(stores, hd[h]) = stores

Calculated == random # Null /\ backoff.type # "none"

\* C25: under every policy and for every attempt count the value
\* calculateBackoffDelay returns is not negative and is at least baseDelay,
\* and at most baseDelay * jitterFactor when the jitter factor is 1 or more
\* (below 1 that interval is empty and only the lower bound is asked).
C25_BackoffBounds ==
  Calculated
    => /\ random >= 0
       /\ baseDelay(attemptsLeft) <= random
       /\ backoff.jitter >= JitterUnit
            => JitterUnit * random <= baseDelay(attemptsLeft) * backoff.jitter

\* C30: calculateBackoffDelay returns 0 without a policy, and exactly the
\* base value (delay if fixed, delay * 2^(attempts - attemptsLeft) if
\* exponential) when the jitter factor is at most 1.
C30_BackoffBase ==
  random # Null
    => /\ backoff.type = "none" => random = 0
       /\ backoff.type = "fixed" /\ backoff.jitter <= JitterUnit
            => random = backoff.delay
       /\ backoff.type = "exponential" /\ backoff.jitter <= JitterUnit
            => random = backoff.delay * Pow2(attempts - attemptsLeft)

\* The lease worker p took on the job in its hands expired while its
\* handler was running, and process() in worker q was granted the job
\* after that; both handlers are running.
Superseded(p, q) ==
  /\ p # q
  /\ InHandler(p) /\ InHandler(q)
  /\ w[p].job = w[q].job
  /\ InQueue(w[p].job)
  /\ w[q].grantAt >= w[p].grantAt + visibilityTimeout

\* C27 (memory driver): when the handler of a process() call returns or
\* throws after its lease expired and the job was granted to another
\* process() call, the completion of the first call leaves the job in the
\* queue with the reservedUntil and availableAt of the second holder.
C27_StaleCompletionHarmless ==
  [][\A p, q \in Workers :
       (driver = "memory" /\ Superseded(p, q) /\ w'[p].pc # "handler")
         => /\ Has(queue', w[p].job)
            /\ heap'[w[p].job].reservedUntil = heap[w[p].job].reservedUntil
            /\ heap'[w[p].job].availableAt = heap[w[p].job].availableAt]_vars

\* The job process() hands to the handler of q in this step, as stored.
HandedOut(q) ==
  IF driver = "memory" THEN heap[w[q].job] ELSE w[q].job

ThrowEnds(p) ==
  /\ w[p].pc \in {"handler", "catchAwait"}
  /\ w'[p].pc \in {"idle", "rejected"}
  /\ clean[JobId(p)] /\ clean'[JobId(p)]

\* C29 (retry path, both drivers): when the handler throws on a job that is
\* in the source queue, not acked, and whose counter after the lease
\* decrement is > 0, process() leaves the job in the source queue with
\* reservedUntil null and availableAt = now + backoffDelay + requeueJitter,
\* 0 <= requeueJitter < workerInterval, and adds nothing to the dead-letter
\* queue; and process() hands a job out again only at or after its
\* availableAt.
C29_RetryPath ==
  [][\A p \in Workers :
       /\ ( /\ ThrowEnds(p)
            /\ JobId(p) \notin ackedIds
            /\ InSource(queue, table, JobId(p))
            /\ JobOf(p).attempts > 0 )
            => /\ InSource(queue', table', JobId(p))
               /\ DeadCopies(dlq', table', JobId(p))
                    = DeadCopies(dlq, table, JobId(p))
               /\ \A j \in SourceCopies(heap', queue', table', JobId(p)) :
                    /\ j.reservedUntil = Null
                    /\ \E d \in calculateBackoffDelay(JobOf(p).attempts) :
                         /\ j.availableAt >= now + d
                         /\ j.availableAt < now + d + workerInterval
       /\ (HandOut(p) /\ HandedOut(p).id # NoJob /\ leases[HandedOut(p).id] > 0)
            => HandedOut(p).availableAt <= now]_vars

\* process() enters its dead-letter branch in the frame of p: the catch
\* block calls `await this.ack(job.id)`.
DeadletterBegins(p) ==
  w[p].pc \in {"handler", "catchAwait"} /\ w'[p].pc = "ackAwait"

\* C31 (no job lost, both drivers): process() never takes a job out of its
\* source queue into a state where the dead-letter queue does not hold it:
\* after every step of the dead-letter branch the job is in the source
\* queue or in the dead-letter queue.
C31_NoJobLost ==
  [][
     \A p \in Workers :
       (DeadletterBegins(p) /\ InSource(queue, table, JobId(p)))
         => \/ InSource(queue', table', JobId(p))
            \/ DeadCopies(dlq', table', JobId(p)) # {}
    ]_vars

\* The number of copies of job id the dead-letter queue holds.
DeadCount(id) ==
  IF driver = "memory"
    THEN Cardinality({ k \in 1..Len(dlq) : dlq[k].id = id })
    ELSE Cardinality({ r \in table : r.id = id /\ r.queue = Deadletter })

\* C32 (both drivers, concurrent calls): the dead-letter queue holds at
\* most one copy of each job, and no job is in the source queue and in the
\* dead-letter queue at the same time.
C32_DeadLetterOnce ==
  \A id \in JobIds :
    /\ DeadCount(id) <= 1
    /\ ~(InSource(queue, table, id) /\ DeadCount(id) > 0)

\* Job id waits in the source queue for a time the clock of the model does
\* not reach.
Beyond(id) ==
  /\ now = MaxTime
  /\ Has(queue, id)
  /\ heap[id].availableAt > now

\* C33 (progress, memory driver, fair sequential process() calls, handlers
\* that ack or throw): every job eventually leaves the source queue for
\* good; it is never again in the source queue unless it waits there for a
\* time beyond MaxTime.
C33_Progress ==
  \A id \in JobIds : <>[](~Has(queue, id) \/ Beyond(id))

\* The polling loops of builder b that are alive: its pending loop timers
\* and its cycles whose race has not settled (their finally is still to
\* schedule the next timer).
LiveLoops(b) ==
  Cardinality({ t \in 1..Len(tm) :
                  tm[t].owner = b /\ tm[t].state = "pending" })
  + Cardinality({ c \in 1..Len(cyc) :
                    cyc[c].owner = b /\ cyc[c].race = "pending" })

\* C34 (restart): start() on a registered task none of whose polling loops
\* is alive (it was never started, or it was stopped and registered again
\* with handler()) spawns exactly `concurrency` loops.
C34_RestartRuns ==
  \A b \in Builders :
    (bld[b].isRegistered /\ LiveLoops(b) = 0)
      => Len(StartTm(b)) = Len(tm) + LoopsToSpawn(b)

\* The peek() of a process() call in the frame of p returns its result.
Selects(p) ==
  /\ w[p].pc \in {"peekAwait", "released"}
  /\ w'[p].pc \in {"peeked", "selected"}

\* The id of the job that peek() returned to the frame f.
SelectedId(f) == IF driver = "memory" THEN f.job ELSE f.job.id

\* Job id is in the source queue, was never handed out, and is eligible
\* for the peek() of the frame of p.
WaitsEligible(p, id) ==
  /\ leases[id] = 0
  /\ InSource(queue, table, id)
  /\ IF driver = "memory"
       THEN heap[id].availableAt <= now /\ ~Truthy(heap[id].reservedUntil)
       ELSE \A r \in SourceCopies(heap, queue, table, id) :
              Eligible(r, w[p].pnow)

\* C35 (ordering, both drivers): the job the peek() of process() selects is
\* the oldest eligible one (database: smallest availableAt, then smallest
\* createdAt; memory: first in the queue), and no job added before it
\* waits eligible and never handed out: jobs are handed out in insertion
\* order.
C35_OldestFirst ==
  [][
     \A p \in Workers :
       (Selects(p) /\ SelectedId(w'[p]) # NoJob)
         => /\ driver = "memory" =>
                 SelectedId(w'[p]) = MemFind(heap, now)
            /\ driver = "database" =>
                 \A o \in DbEligibleRows(w[p].pnow) :
                   \/ w'[p].job.availableAt < o.availableAt
                   \/ /\ w'[p].job.availableAt = o.availableAt
                      /\ w'[p].job.createdAt <= o.createdAt
            /\ \A i \in JobIds :
                 i < SelectedId(w'[p]) => ~WaitsEligible(p, i)
    ]_vars

\* C36 (implicit lease of peek(), both drivers): when a direct peek()
\* returns a job, the job is left under a lease, so that it is not
\* eligible for a peek() issued at once.
C36_PeekLeases ==
  [][
     \A p \in Workers :
       \A id \in PeekReturns(p) :
         \A j \in SourceCopies(heap', queue', table', id) :
           ~Eligible(j, now)
    ]_vars

\* No job of the source queue is eligible at time t.
NoEligible(t) ==
  \A id \in JobIds :
    \A j \in SourceCopies(heap, queue, table, id) : ~Eligible(j, t)

\* The time the peek() in the frame of p compares with.
PeekTime(p) == IF driver = "memory" THEN now ELSE w[p].pnow

\* This step changes no stored job and no queue.
StoresUnchanged ==
  /\ queue' = queue /\ dlq' = dlq /\ table' = table
  /\ \A id \in JobIds : Has(queue, id) => heap'[id] = heap[id]

C38_TruncateSparesOthers ==
  /\ OtherJobs(MemTruncated(other), DbTruncated(table))
       = OtherJobs(other, table)
  /\ OtherLength(MemTruncated(other), DbTruncated(table))
       = OtherLength(other, table)

\* ------------------------------------------------------------ SQS driver

\* The catch block of process() on the SQS driver is left by this step.
SqsFailureEnds ==
  /\ sqsCall.pc \in {"catch", "prettify"}
  /\ sqsCall'.pc \notin {"catch", "prettify"}

\* C39: on the SQS driver with attempt budget N the handler is handed
\* attempts = max(N - delivery count of the message, 0); when the handler
\* fails on a message still in the queue, the message is kept and its
\* visibility changed to 0..43200 seconds from now while that value is > 0,
\* and otherwise it is sent to the dead-letter queue first and deleted next;
\* a message whose every delivery failed is dead-lettered on delivery N.
C39_SqsAttempts ==
  [][
      /\ sqsCall.pc = "idle" /\ sqsCall'.pc = "handler" =>
            sqsCall'.attempts =
              Max(attempts - SqsMessage(sqs', sqsCall'.id).count, 0)
      /\ SqsFailureEnds /\ SqsHas(sqs, sqsCall.id) /\ sqsCall.attempts > 0 =>
            /\ sqsCall'.pc = "idle"
            /\ sqsDlq' = sqsDlq
            /\ SqsHas(sqs', sqsCall.id)
            /\ \E k \in 0..MaxVisibility :
                 SqsMessage(sqs', sqsCall.id).visibleAt = now + k * SecMs
      /\ SqsFailureEnds /\ SqsHas(sqs, sqsCall.id) /\ sqsCall.attempts = 0 =>
            /\ sqsCall'.pc = "dlqSent"
            /\ sqsDlq' = Append(sqsDlq, sqsCall.data)
            /\ SqsHas(sqs', sqsCall.id)
      /\ sqsCall.pc = "dlqSent" /\ sqsCall'.pc # "dlqSent" =>
            ~SqsHas(sqs', sqsCall.id)
      /\ /\ Len(sqsDlq') > Len(sqsDlq)
         /\ SqsHas(sqs, sqsCall.id)
         /\ SqsMessage(sqs, sqsCall.id).fails = sqsCall.count
         => sqsCall.count = attempts
  ]_vars

\* C40: on a connection of type fifo whose queue name's .fifo suffix and
\* the server's FifoQueue attribute disagree, the first add() throws
\* NotFifoSqsQueueTypeException and issues no SendMessageCommand, whatever
\* the contentBasedDeduplication option is.
C40_FifoCheck ==
  [][
      /\ sqsDrv.type = "fifo"
      /\ sqsDrv.adds = 0
      /\ sqsDrv'.adds = 1
      /\ sqsDrv.FifoQueue # sqsDrv.nameFifo
      => /\ sqsDrv'.thrown = "NotFifoSqsQueueTypeException"
         /\ sqsDrv'.sends = sqsDrv.sends
         /\ sqs' = sqs
  ]_vars

=============================================================================
